---- MODULE Spec2Model ----
(***************************************************************************)
(* Model of the structured-output chat client of talk-to-ugur-back         *)
(* (package ai): the fallback negotiator of GenerateReply and of           *)
(* doChatStreamRequestWithFallback, and the incremental field extractor    *)
(* jsonStreamParser that StreamReply feeds with the content deltas of the  *)
(* provider stream.                                                        *)
(*                                                                         *)
(* Text is modelled as a sequence of runes, a rune as its code point.      *)
(***************************************************************************)
EXTENDS Integers, Sequences, FiniteSets, TLC

VARIABLES
    \* ---- one StreamReply call, after the stream was opened ----
    payload,        \* the runes the provider will send as content deltas
    pos,            \* number of runes of payload already received
    emotions,       \* Client.emotions
    parser,         \* the jsonStreamParser of the call
    delivered,      \* concatenation, in call order, of the onReply arguments
    emotionCalls,   \* arguments of the onEmotion invocations, in call order
    cutInEscape,    \* a Feed call returned with an escape of the reply pending
    streamPc,       \* "reading" | "returned"
    streamResult,   \* what StreamReply returned
    refusal,        \* refusalBuilder, or Message.Refusal of a buffered answer
    badFrames,      \* data frames the loop could not decode and skipped
    callbackFails,  \* the callback that returns an error when invoked
    wire,           \* lines of the stream that carry no frame, frames that
                    \* came after the terminator
    \* ---- the fallback negotiator, buffered and streaming ----
    apiKey,         \* Client.apiKey
    script,         \* outcomes of the transport calls made so far, in order
    gen,            \* the escalation of GenerateReply
    str,            \* the escalation of doChatStreamRequestWithFallback
    \* ---- the calls as the chat handler makes them ----
    genPc,          \* GenerateReply: "calling" | "returned"
    genResult,      \* what GenerateReply returned
    choices,        \* len(parsed.Choices) of the buffered answer
    chat,           \* streamChat: its position and the assistant messages stored
    \* ---- a jsonStreamParser and the Feed calls made on it ----
    ftext,          \* the text the Feed calls carry, chunk after chunk
    fpos,           \* number of runes of ftext already fed
    fp,             \* the parser
    fcalls,         \* the callback invocations so far, in order
    feeds,          \* number of Feed calls made
    \* ---- the RateLimiter and the requests that pass its middleware ----
    clock,          \* what time.Now() returns, in ticks
    mu,             \* RateLimiter.mu: 0 or the request that holds it
    clients,        \* RateLimiter.clients: the clientLimiter of a key, or 0
    heap,           \* the clientLimiter objects
    lastCleanup,    \* RateLimiter.lastCleanup
    reqs,           \* the requests: position, key, locals of allow
    answer,         \* what the middleware did with the last request it
                    \* answered: "next" | "429"
    retry,          \* the Retry-After of that answer, in nanoseconds
    passed,         \* per key, the requests let through since the last tick
    rejected,       \* per key, the requests answered 429 since the last one
                    \* let through
    \* ---- two calls under way on one Client ----
    shared,         \* the Client
    calls,          \* the locals of each call: reqBody and err, the parser,
                    \* what its callbacks received, what it returned
    \* ---- HandleSendMessage: the tables and the requests under way ----
    visitors,       \* uuid of the rows of table visitors
    threads,        \* rows of table chat_threads
    stored,         \* rows of table chat_messages, in the order of created_at
    posts,          \* per request: its fields, its locals, its answer
    \* ---- Server.Run and the requests to /ready ----
    ready,          \* Server.ready
    run,            \* where Server.Run stands
    gets            \* per request to /ready: when it was made, its answer

streamVars == <<payload, pos, emotions, parser, delivered, emotionCalls,
                cutInEscape, streamPc, streamResult, refusal, badFrames,
                callbackFails, wire>>
negVars == <<apiKey, script, gen, str>>
callVars == <<genPc, genResult, choices, chat>>
feedVars == <<ftext, fpos, fp, fcalls, feeds>>
\* what the client and the chat handler never touch
limVars == <<clock, mu, clients, heap, lastCleanup, reqs, answer, retry,
            passed, rejected>>
pairVars == <<shared, calls>>
postVars == <<visitors, threads, stored, posts>>
srvVars == <<ready, run, gets>>
restVars == <<feedVars, limVars, pairVars, postVars, srvVars>>
vars == <<payload, pos, emotions, parser, delivered, emotionCalls,
          cutInEscape, streamPc, streamResult, refusal, badFrames,
          callbackFails, wire, apiKey, script, gen, str, genPc, genResult,
          choices, chat, ftext, fpos, fp, fcalls, feeds, clock, mu, clients,
          heap, lastCleanup, reqs, answer, retry, passed, rejected, shared,
          calls, visitors, threads, stored, posts, ready, run, gets>>

----------------------------------------------------------------------------
(* Bounds *)

\* longest content delta of a frame, short of "all that is left"
MaxChunk == 3
\* most fields of a generated payload object
MaxFields == 2
\* most data frames of one stream that do not decode
MaxBadFrames == 1
\* most lines of one stream that are no data frame
MaxOtherLines == 1
\* most frames that arrive after the terminator of one stream
MaxLateFrames == 1
\* the last tick of the clock
MaxClock == 5
\* most requests inside the middleware at once
MaxInFlight == 2
\* most requests of HandleSendMessage under way at once
MaxPosts == 2
\* the messages the known thread holds before the requests arrive
MaxStored == 2
\* most requests made to /ready
MaxGets == 3

----------------------------------------------------------------------------
(* Runes and text *)

\* the code point of a character, named by itself or by its usual name
RuneOf(c) ==
    CASE c = "{" -> 123
      [] c = "!" -> 33
      [] c = "}" -> 125
      [] c = ":" -> 58
      [] c = "," -> 44
      [] c = "\"" -> 34
      [] c = "\\" -> 92
      [] c = "/" -> 47
      [] c = " " -> 32
      [] c = "+" -> 43
      [] c = "-" -> 45
      [] c = "0" -> 48
      [] c = "1" -> 49
      [] c = "2" -> 50
      [] c = "3" -> 51
      [] c = "4" -> 52
      [] c = "5" -> 53
      [] c = "6" -> 54
      [] c = "7" -> 55
      [] c = "8" -> 56
      [] c = "9" -> 57
      [] c = "A" -> 65
      [] c = "B" -> 66
      [] c = "C" -> 67
      [] c = "D" -> 68
      [] c = "E" -> 69
      [] c = "F" -> 70
      [] c = "H" -> 72
      [] c = "R" -> 82
      [] c = "S" -> 83
      [] c = "a" -> 97
      [] c = "b" -> 98
      [] c = "c" -> 99
      [] c = "d" -> 100
      [] c = "e" -> 101
      [] c = "f" -> 102
      [] c = "h" -> 104
      [] c = "i" -> 105
      [] c = "l" -> 108
      [] c = "m" -> 109
      [] c = "n" -> 110
      [] c = "o" -> 111
      [] c = "p" -> 112
      [] c = "q" -> 113
      [] c = "r" -> 114
      [] c = "s" -> 115
      [] c = "t" -> 116
      [] c = "u" -> 117
      [] c = "x" -> 120
      [] c = "y" -> 121
      [] c = "z" -> 122

RuneNames ==
    {"!", "{", "}", ":", ",", "\"", "\\", "/", " ",
     "+", "-", "0", "1", "2", "3", "4", "5",
     "6", "7", "8", "9", "A", "B", "C", "D",
     "E", "F", "H", "R", "S", "a", "b", "c",
     "d", "e", "f", "h", "i", "l", "m", "n",
     "o", "p", "q", "r", "s", "t", "u", "x",
     "y", "z"}

Rune == [c \in RuneNames |-> RuneOf(c)]

\* the text whose characters are the one-character strings of the tuple s
Str(s) == [i \in 1..Len(s) |-> Rune[s[i]]]

\* the runes the code names in its rune literals
QUOTE == 34
BACKSLASH == 92
SLASH == 47
LBRACE == 123
RBRACE == 125
COLON == 58
COMMA == 44
SPACE == 32
LetterB == 98
LetterF == 102
LetterN == 110
LetterR == 114
LetterT == 116
LetterU == 117
BS == 8
TAB == 9
LF == 10
VT == 11
FF == 12
CR == 13
NEL == 133
NBSP == 160
PLUS == 43
MINUS == 45

\* unicode/utf8
RuneSelf == 128
RuneError == 65533
MaxRune == 1114111
surrogateMin == 55296
surrogateMax == 57343

\* unicode/utf16
surr1 == 55296
surr2 == 56320
surr3 == 57344
surrSelf == 65536

KeyReply == Str(<<"r", "e", "p", "l", "y">>)
KeyEmotion == Str(<<"e", "m", "o", "t", "i", "o", "n">>)
Neutral == Str(<<"n", "e", "u", "t", "r", "a", "l">>)

\* utf8.AppendRune, as strings.Builder.WriteRune stores a rune: a value that
\* is no Unicode scalar is stored as U+FFFD
WriteRune(r) ==
    IF r < 0 \/ r > MaxRune
       \/ (r >= surrogateMin /\ r <= surrogateMax)
    THEN RuneError
    ELSE r

\* unicode.IsSpace on the runes strings.TrimSpace strips
IsSpace(r) ==
    r \in {TAB, LF, VT, FF, CR,
           SPACE, NEL, NBSP}

RECURSIVE TrimLeft(_)
TrimLeft(t) ==
    IF t # <<>> /\ IsSpace(Head(t)) THEN TrimLeft(Tail(t)) ELSE t

RECURSIVE TrimRight(_)
TrimRight(t) ==
    IF t # <<>> /\ IsSpace(t[Len(t)])
    THEN TrimRight(SubSeq(t, 1, Len(t) - 1))
    ELSE t

TrimSpace(t) == TrimRight(TrimLeft(t))

\* unicode.ToLower on the Latin-1 range
LowerRune(r) ==
    IF (r >= 65 /\ r <= 90) \/ (r >= 192 /\ r <= 222 /\ r # 215)
    THEN r + 32
    ELSE r

ToLower(t) == [i \in 1..Len(t) |-> LowerRune(t[i])]

\* value of a hexadecimal digit, -1 for any other rune
HexVal(r) ==
    IF r >= 48 /\ r <= 57 THEN r - 48
    ELSE IF r >= 97 /\ r <= 102 THEN r - 87
    ELSE IF r >= 65 /\ r <= 70 THEN r - 55
    ELSE -1

IsHex(t) == \A i \in 1..Len(t) : HexVal(t[i]) >= 0

\* the number the first n runes of t are the hexadecimal digits of
RECURSIVE HexPrefix(_, _)
HexPrefix(t, n) ==
    IF n = 0 THEN 0 ELSE 16 * HexPrefix(t, n - 1) + HexVal(t[n])

HexNum(t) == HexPrefix(t, Len(t))

----------------------------------------------------------------------------
(* jsonStreamParser *)

newJSONStreamParser ==
    [replyBuilder |-> <<>>, replyChunk |-> <<>>, currentKey |-> <<>>,
     currentValue |-> <<>>, currentKeyName |-> <<>>, emotion |-> <<>>,
     inString |-> FALSE, expectValue |-> FALSE, mode |-> "",
     escape |-> FALSE, unicodeLeft |-> 0, unicodeBuf |-> <<>>]

\* decodeUnicode, had the four characters been read as a decimal number
decodeUnicodeBase10(hexStr) ==
    IF Len(hexStr) # 4 \/ \E i \in 1..Len(hexStr) : hexStr[i] \notin 48..57
    THEN [ok |-> FALSE, r |-> 0]
    ELSE [ok |-> TRUE,
          r |-> (hexStr[1] - 48) * 1000 + (hexStr[2] - 48) * 100
                    + (hexStr[3] - 48) * 10 + (hexStr[4] - 48)]

\* strconv.ParseInt(hexStr, 16, 32) behind the length test: hexStr holds
\* four bytes, an optional sign and then hexadecimal digits only
decodeUnicode(hexStr) ==
    IF Len(hexStr) # 4 \/ \E i \in 1..Len(hexStr) : hexStr[i] >= RuneSelf
    THEN [ok |-> FALSE, r |-> 0]
    ELSE IF hexStr[1] \in {PLUS, MINUS}
    THEN IF IsHex(Tail(hexStr))
         THEN [ok |-> TRUE,
               r |-> IF hexStr[1] = MINUS THEN 0 - HexNum(Tail(hexStr))
                     ELSE HexNum(Tail(hexStr))]
         ELSE [ok |-> FALSE, r |-> 0]
    ELSE IF IsHex(hexStr)
    THEN [ok |-> TRUE, r |-> HexNum(hexStr)]
    ELSE [ok |-> FALSE, r |-> 0]

\* handleRune, had it taken the runes of every value for the reply
handleRuneAnyValue(p, r) ==
    IF p.mode = "key"
    THEN [p EXCEPT !.currentKey = Append(@, WriteRune(r))]
    ELSE IF p.mode = "value"
    THEN [p EXCEPT !.replyBuilder = Append(@, WriteRune(r)),
                   !.replyChunk = Append(@, WriteRune(r))]
    ELSE p

handleRune(p, r) ==
    IF p.mode = "key"
    THEN [p EXCEPT !.currentKey = Append(@, WriteRune(r))]
    ELSE IF p.mode = "value"
    THEN IF p.currentKeyName = KeyReply
         THEN [p EXCEPT !.replyBuilder = Append(@, WriteRune(r)),
                        !.replyChunk = Append(@, WriteRune(r))]
         ELSE IF p.currentKeyName = KeyEmotion /\ p.emotion = <<>>
         THEN [p EXCEPT !.currentValue = Append(@, WriteRune(r))]
         ELSE p
    ELSE p

\* the rune an escape selector stands for
EscapeRune(r) ==
    IF r = LetterB THEN BS
    ELSE IF r = LetterF THEN FF
    ELSE IF r = LetterN THEN LF
    ELSE IF r = LetterR THEN CR
    ELSE IF r = LetterT THEN TAB
    ELSE r

\* the capture test of a closing quote of a value
CaptureOpen(p) == p.currentKeyName = KeyEmotion /\ p.emotion = <<>>

\* FeedRune, had a backslash in a value that is discarded been discarded too
FeedRuneRawOthers(s, r) ==
    LET p == s.p IN
    IF /\ p.inString /\ p.mode = "value" /\ r = BACKSLASH
       /\ p.unicodeLeft = 0 /\ ~p.escape
       /\ p.currentKeyName \notin {KeyReply, KeyEmotion}
    THEN s
    ELSE IF p.unicodeLeft > 0
    THEN LET buf == Append(p.unicodeBuf, r)
             left == p.unicodeLeft - 1
         IN IF left = 0
            THEN LET d == decodeUnicode(buf)
                     q == [p EXCEPT !.unicodeLeft = 0, !.unicodeBuf = <<>>]
                 IN [s EXCEPT !.p = IF d.ok THEN handleRune(q, d.r) ELSE q]
            ELSE [s EXCEPT !.p = [p EXCEPT !.unicodeLeft = left,
                                           !.unicodeBuf = buf]]
    ELSE IF p.inString
    THEN IF p.escape
         THEN IF r = LetterU
              THEN [s EXCEPT !.p = [p EXCEPT !.escape = FALSE,
                                             !.unicodeLeft = 4]]
              ELSE [s EXCEPT !.p = handleRune([p EXCEPT !.escape = FALSE],
                                              EscapeRune(r))]
         ELSE IF r = BACKSLASH
         THEN [s EXCEPT !.p = [p EXCEPT !.escape = TRUE]]
         ELSE IF r = QUOTE
         THEN IF p.mode = "key"
              THEN [s EXCEPT !.p = [p EXCEPT !.inString = FALSE,
                                             !.currentKeyName = p.currentKey,
                                             !.currentKey = <<>>,
                                             !.expectValue = TRUE,
                                             !.mode = ""]]
              ELSE IF p.mode = "value"
              THEN IF CaptureOpen(p)
                   THEN [p |-> [p EXCEPT !.inString = FALSE,
                                         !.emotion = p.currentValue,
                                         !.currentValue = <<>>,
                                         !.expectValue = FALSE,
                                         !.mode = ""],
                         fired |-> Append(s.fired, p.currentValue)]
                   ELSE [s EXCEPT !.p = [p EXCEPT !.inString = FALSE,
                                                  !.currentValue = <<>>,
                                                  !.expectValue = FALSE,
                                                  !.mode = ""]]
              ELSE [s EXCEPT !.p = [p EXCEPT !.inString = FALSE, !.mode = ""]]
         ELSE [s EXCEPT !.p = handleRune(p, r)]
    ELSE IF r = QUOTE
    THEN [s EXCEPT !.p = [p EXCEPT !.inString = TRUE,
                                   !.mode = IF p.expectValue THEN "value"
                                            ELSE "key"]]
    ELSE IF r = COMMA
    THEN [s EXCEPT !.p = [p EXCEPT !.expectValue = FALSE, !.mode = ""]]
    ELSE s

\* one iteration of the loop of Feed; s.fired collects the onEmotion arguments
FeedRune(s, r) ==
    LET p == s.p IN
    IF p.unicodeLeft > 0
    THEN LET buf == Append(p.unicodeBuf, r)
             left == p.unicodeLeft - 1
         IN IF left = 0
            THEN LET d == decodeUnicode(buf)
                     q == [p EXCEPT !.unicodeLeft = 0, !.unicodeBuf = <<>>]
                 IN [s EXCEPT !.p = IF d.ok THEN handleRune(q, d.r) ELSE q]
            ELSE [s EXCEPT !.p = [p EXCEPT !.unicodeLeft = left,
                                           !.unicodeBuf = buf]]
    ELSE IF p.inString
    THEN IF p.escape
         THEN IF r = LetterU
              THEN [s EXCEPT !.p = [p EXCEPT !.escape = FALSE,
                                             !.unicodeLeft = 4]]
              ELSE [s EXCEPT !.p = handleRune([p EXCEPT !.escape = FALSE],
                                              EscapeRune(r))]
         ELSE IF r = BACKSLASH
         THEN [s EXCEPT !.p = [p EXCEPT !.escape = TRUE]]
         ELSE IF r = QUOTE
         THEN IF p.mode = "key"
              THEN [s EXCEPT !.p = [p EXCEPT !.inString = FALSE,
                                             !.currentKeyName = p.currentKey,
                                             !.currentKey = <<>>,
                                             !.expectValue = TRUE,
                                             !.mode = ""]]
              ELSE IF p.mode = "value"
              THEN IF CaptureOpen(p)
                   THEN [p |-> [p EXCEPT !.inString = FALSE,
                                         !.emotion = p.currentValue,
                                         !.currentValue = <<>>,
                                         !.expectValue = FALSE,
                                         !.mode = ""],
                         fired |-> Append(s.fired, p.currentValue)]
                   ELSE [s EXCEPT !.p = [p EXCEPT !.inString = FALSE,
                                                  !.currentValue = <<>>,
                                                  !.expectValue = FALSE,
                                                  !.mode = ""]]
              ELSE [s EXCEPT !.p = [p EXCEPT !.inString = FALSE, !.mode = ""]]
         ELSE [s EXCEPT !.p = handleRune(p, r)]
    ELSE IF r = QUOTE
    THEN [s EXCEPT !.p = [p EXCEPT !.inString = TRUE,
                                   !.mode = IF p.expectValue THEN "value"
                                            ELSE "key"]]
    ELSE IF r = COMMA
    THEN [s EXCEPT !.p = [p EXCEPT !.expectValue = FALSE, !.mode = ""]]
    ELSE s

\* the loop of Feed over the runes lo..hi of text, in order. A value drawn
\* from its singleton set is computed once, before what uses it: the first
\* half of the range is done when the second is entered.
RECURSIVE FeedRunes(_, _, _, _)
FeedRunes(s, text, lo, hi) ==
    IF lo > hi THEN s
    ELSE IF lo = hi THEN FeedRune(s, text[lo])
    ELSE LET mid == (lo + hi) \div 2 IN
         CHOOSE out \in {FeedRunes(left, text, mid + 1, hi) :
                            left \in {FeedRunes(s, text, lo, mid)}} : TRUE

\* FeedFlush, had the pending escape been local to one Feed call
FeedFlushResetsEscape(p) == [p EXCEPT !.replyChunk = <<>>, !.escape = FALSE]

\* FeedFlush, had the hex digits collected so far been local to one Feed call
FeedFlushDropsHexDigits(p) ==
    [p EXCEPT !.replyChunk = <<>>, !.unicodeBuf = <<>>]

\* FeedFlush, had the end of a Feed call closed the string it stands in
FeedFlushLeavesString(p) == [p EXCEPT !.replyChunk = <<>>, !.inString = FALSE]

\* what is left pending in the parser when Feed returns
FeedFlush(p) == [p EXCEPT !.replyChunk = <<>>]

\* Feed, had it kept the emotion for SetEmotion to deliver
FeedSilentEmotion(p, text) ==
    CHOOSE out \in
        {[p |-> FeedFlush(s.p),
          fired |-> <<>>,
          replies |-> IF Len(s.p.replyChunk) > 0 THEN <<s.p.replyChunk>>
                      ELSE <<>>] :
         s \in {FeedRunes([p |-> p, fired |-> <<>>], text, 1, Len(text))}} : TRUE

\* Feed, had it invoked onReply for each character as it is decoded
FeedPerCharacter(p, text) ==
    CHOOSE out \in
        {[p |-> FeedFlush(s.p),
          fired |-> s.fired,
          replies |-> [i \in 1..Len(s.p.replyChunk) |-> <<s.p.replyChunk[i]>>]] :
         s \in {FeedRunes([p |-> p, fired |-> <<>>], text, 1, Len(text))}} : TRUE

\* jsonStreamParser.Feed with callbacks that return nil: the parser after
\* the call, the onEmotion arguments and the onReply arguments, in order
Feed(p, text) ==
    CHOOSE out \in
        {[p |-> FeedFlush(s.p),
          fired |-> s.fired,
          replies |-> IF Len(s.p.replyChunk) > 0 THEN <<s.p.replyChunk>>
                      ELSE <<>>] :
         s \in {FeedRunes([p |-> p, fired |-> <<>>], text, 1, Len(text))}} : TRUE

\* SetEmotion, had it left the parser as it was
SetEmotionIgnored(p, emotion) == [p |-> p, fired |-> <<>>]

\* jsonStreamParser.SetEmotion: the parser and the onEmotion arguments
SetEmotion(p, emotion) ==
    IF p.emotion # <<>>
    THEN [p |-> p, fired |-> <<>>]
    ELSE [p |-> [p EXCEPT !.emotion = emotion],
          fired |-> IF emotion # <<>> THEN <<emotion>> ELSE <<>>]

----------------------------------------------------------------------------
(* encoding/json as parseAIJSON uses it: a flat object of string members *)

IsJSONSpace(r) == r \in {SPACE, TAB, LF, CR}

RECURSIVE SkipWS(_, _)
SkipWS(t, i) ==
    IF i <= Len(t) /\ IsJSONSpace(t[i]) THEN SkipWS(t, i + 1) ELSE i

At(t, i) == IF i >= 1 /\ i <= Len(t) THEN t[i] ELSE -1

\* a \uXXXX escape starts at index i of t
IsUEscape(t, i) ==
    /\ i + 5 <= Len(t)
    /\ t[i] = BACKSLASH
    /\ t[i + 1] = LetterU
    /\ IsHex(SubSeq(t, i + 2, i + 5))

UEscapeVal(t, i) == HexNum(SubSeq(t, i + 2, i + 5))

\* utf16.IsSurrogate halves
IsHighSurrogate(c) == c >= surr1 /\ c < surr2
IsLowSurrogate(c) == c >= surr2 /\ c < surr3

\* utf16.DecodeRune
DecodeSurrogates(hi, lo) == (hi - surr1) * 1024 + (lo - surr2) + surrSelf

\* the character of a string literal that starts at index i, a quote
\* excepted: the rune it stands for and the number of runes it is written in
JSONChar(t, i) ==
    LET r == At(t, i)
        e == At(t, i + 1)
        c == UEscapeVal(t, i)
    IN IF r # BACKSLASH
       THEN [ok |-> r >= SPACE, rune |-> r, width |-> 1]
       ELSE IF e = LetterU
       THEN IF ~IsUEscape(t, i)
            THEN [ok |-> FALSE, rune |-> 0, width |-> 0]
            ELSE IF IsHighSurrogate(c) /\ IsUEscape(t, i + 6)
                    /\ IsLowSurrogate(UEscapeVal(t, i + 6))
            THEN [ok |-> TRUE,
                  rune |-> DecodeSurrogates(c, UEscapeVal(t, i + 6)),
                  width |-> 12]
            ELSE [ok |-> TRUE, rune |-> WriteRune(c), width |-> 6]
       ELSE IF e \in {QUOTE, BACKSLASH, SLASH, LetterB, LetterF,
                      LetterN, LetterR, LetterT}
       THEN [ok |-> TRUE, rune |-> EscapeRune(e), width |-> 2]
       ELSE [ok |-> FALSE, rune |-> 0, width |-> 0]

NoString == [ok |-> FALSE, val |-> <<>>, next |-> 0]
NoMember == [ok |-> FALSE, key |-> <<>>, val |-> <<>>, next |-> 0]
NoMembers == [ok |-> FALSE, members |-> <<>>, next |-> 0]
NoObject == [ok |-> FALSE, members |-> <<>>]

\* the string literal whose opening quote precedes index i: its value and
\* the index after its closing quote
RECURSIVE JSONString(_, _, _)
JSONString(t, i, acc) ==
    IF At(t, i) = QUOTE
    THEN [ok |-> TRUE, val |-> acc, next |-> i + 1]
    ELSE CHOOSE out \in
             {IF c.ok THEN JSONString(t, i + c.width, Append(acc, c.rune))
              ELSE NoString :
              c \in {JSONChar(t, i)}} : TRUE

\* the member named k: its value, after the colon that follows the name, and
\* the index of what follows it, white space skipped
JSONMemberValue(t, k) ==
    LET c == SkipWS(t, k.next)
        v == SkipWS(t, c + 1)
    IN IF At(t, c) # COLON \/ At(t, v) # QUOTE
       THEN NoMember
       ELSE CHOOSE out \in
                {IF s.ok
                 THEN [ok |-> TRUE, key |-> k.val, val |-> s.val,
                       next |-> SkipWS(t, s.next)]
                 ELSE NoMember :
                 s \in {JSONString(t, v + 1, <<>>)}} : TRUE

\* the member whose name opens at index i
JSONMember(t, i) ==
    IF At(t, i) # QUOTE
    THEN NoMember
    ELSE CHOOSE out \in
             {IF k.ok THEN JSONMemberValue(t, k) ELSE NoMember :
              k \in {JSONString(t, i + 1, <<>>)}} : TRUE

\* the members from index i on, up to the closing brace
RECURSIVE JSONMembers(_, _, _)
JSONMembers(t, i, acc) ==
    CHOOSE out \in
        {IF ~m.ok
         THEN NoMembers
         ELSE IF At(t, m.next) = COMMA
         THEN JSONMembers(t, SkipWS(t, m.next + 1),
                          Append(acc, [key |-> m.key, val |-> m.val]))
         ELSE IF At(t, m.next) = RBRACE
         THEN [ok |-> TRUE,
               members |-> Append(acc, [key |-> m.key, val |-> m.val]),
               next |-> m.next + 1]
         ELSE NoMembers :
         m \in {JSONMember(t, i)}} : TRUE

\* the object t is, nothing but white space around it
JSONObject(t) ==
    LET o == SkipWS(t, 1)
        f == SkipWS(t, o + 1)
    IN IF At(t, o) # LBRACE
       THEN NoObject
       ELSE IF At(t, f) = RBRACE
       THEN IF SkipWS(t, f + 1) > Len(t)
            THEN [ok |-> TRUE, members |-> <<>>]
            ELSE NoObject
       ELSE CHOOSE out \in
                {IF m.ok /\ SkipWS(t, m.next) > Len(t)
                 THEN [ok |-> TRUE, members |-> m.members]
                 ELSE NoObject :
                 m \in {JSONMembers(t, f, <<>>)}} : TRUE

\* the value a field of aiJSON gets: the last member whose name matches the
\* field name, letter case ignored
RECURSIVE FieldOf(_, _, _)
FieldOf(members, name, i) ==
    IF i = 0 THEN <<>>
    ELSE IF ToLower(members[i].key) = name THEN members[i].val
    ELSE FieldOf(members, name, i - 1)

NotParsed == [ok |-> FALSE, Reply |-> <<>>, Emotion |-> <<>>]

\* json.Unmarshal([]byte(text), &parsed), parsed an aiJSON
Unmarshal(text) ==
    CHOOSE out \in
        {IF o.ok
         THEN [ok |-> TRUE,
               Reply |-> FieldOf(o.members, KeyReply, Len(o.members)),
               Emotion |-> FieldOf(o.members, KeyEmotion, Len(o.members))]
         ELSE NotParsed :
         o \in {JSONObject(text)}} : TRUE

\* strings.Index and strings.LastIndex of one rune, 0 when absent
Index(t, r) ==
    IF \E i \in 1..Len(t) : t[i] = r
    THEN CHOOSE i \in 1..Len(t) : t[i] = r /\ \A j \in 1..(i - 1) : t[j] # r
    ELSE 0

LastIndex(t, r) ==
    IF \E i \in 1..Len(t) : t[i] = r
    THEN CHOOSE i \in 1..Len(t) : t[i] = r /\ \A j \in (i + 1)..Len(t) : t[j] # r
    ELSE 0

parseAIJSON(content) ==
    LET start == Index(content, LBRACE)
        end == LastIndex(content, RBRACE)
    IN CHOOSE out \in
           {IF whole.ok THEN whole
            ELSE IF start = 0 \/ end = 0 \/ end <= start THEN NotParsed
            ELSE Unmarshal(SubSeq(content, start, end)) :
            whole \in {Unmarshal(content)}} : TRUE

\* normalizeEmotion, had it returned any emotion, allowed or not
normalizeEmotionUnchecked(emotion, allowed) ==
    ToLower(TrimSpace(emotion))

normalizeEmotion(emotion, allowed) ==
    LET e == ToLower(TrimSpace(emotion)) IN
    IF \E i \in 1..Len(allowed) : e = ToLower(TrimSpace(allowed[i]))
    THEN e
    ELSE <<>>

\* fallbackEmotion, had it returned the configured value as it is written
fallbackEmotionVerbatim(allowed) ==
    IF \E i \in 1..Len(allowed) : TrimSpace(allowed[i]) # <<>>
    THEN LET i == CHOOSE k \in 1..Len(allowed) :
                      /\ TrimSpace(allowed[k]) # <<>>
                      /\ \A j \in 1..(k - 1) : TrimSpace(allowed[j]) = <<>>
         IN TrimSpace(allowed[i])
    ELSE Neutral

fallbackEmotion(allowed) ==
    IF \E i \in 1..Len(allowed) : TrimSpace(allowed[i]) # <<>>
    THEN LET i == CHOOSE k \in 1..Len(allowed) :
                      /\ TrimSpace(allowed[k]) # <<>>
                      /\ \A j \in 1..(k - 1) : TrimSpace(allowed[j]) = <<>>
         IN ToLower(TrimSpace(allowed[i]))
    ELSE Neutral

----------------------------------------------------------------------------
(* The payloads a provider may stream: flat objects of string members *)

\* the source text of a member: name and value as written between quotes
Member(k, v) == [key |-> Str(k), src |-> Str(v)]

UEscapeSrc == <<"\\", "u", "0", "0", "e", "9">>
SurrogateSrc == <<"\\", "u", "d", "8", "3", "d", "\\", "u", "d", "e", "0", "0">>
ShorthandSrc == <<"q", "\\", "\"", "\\", "\\", "\\", "/", "\\", "b", "\\", "f",
                  "\\", "n", "\\", "r", "\\", "t">>

Members ==
    { Member(<<"e", "m", "o", "t", "i", "o", "n">>, <<>>),
      Member(<<"e", "m", "o", "t", "i", "o", "n">>, <<"S", "a", "d">>),
      Member(<<"r", "e", "p", "l", "y">>, <<>>),
      Member(<<"r", "e", "p", "l", "y">>, <<"h", "i">>),
      Member(<<"r", "e", "p", "l", "y">>, UEscapeSrc),
      Member(<<"r", "e", "p", "l", "y">>, SurrogateSrc),
      Member(<<"r", "e", "p", "l", "y">>, ShorthandSrc),
      Member(<<"R", "e", "p", "l", "y">>, <<"y", "o">>),
      Member(<<"E", "m", "o", "t", "i", "o", "n">>, <<"h", "i">>),
      Member(<<"x">>, <<"z">>) }

MemberText(m) ==
    <<QUOTE>> \o m.key \o <<QUOTE, COLON>> \o <<QUOTE>> \o m.src \o <<QUOTE>>

RECURSIVE JoinMembers(_, _)
JoinMembers(ms, i) ==
    IF i > Len(ms) THEN <<>>
    ELSE (IF i > 1 THEN <<COMMA, SPACE>> ELSE <<>>)
         \o MemberText(ms[i]) \o JoinMembers(ms, i + 1)

ObjectText(ms) == <<LBRACE>> \o JoinMembers(ms, 1) \o <<RBRACE>>

MemberLists == UNION {[1..n -> Members] : n \in 0..MaxFields}

Payloads == {ObjectText(ms) : ms \in MemberLists}

EmotionLists ==
    { <<>>, <<Str(<<" ">>), Str(<<"S", "a", "d">>), Str(<<"h", "i">>)>> }

----------------------------------------------------------------------------
(* StreamReply, from the opened stream to its return *)

RECURSIVE Concat(_)
Concat(ss) == IF ss = <<>> THEN <<>> ELSE Head(ss) \o Concat(Tail(ss))

\* the content fragments of the documented end-to-end exchange
HappyFragments ==
    << Str(<<"{", "\"", "e", "m", "o", "t", "i", "o", "n", "\"", ":", "\"",
             "h", "a", "p", "p">>),
       Str(<<"y", "\"", ",", "\"", "r", "e", "p", "l", "y", "\"", ":", "\"",
             "H", "e">>),
       Str(<<"l", "l", "o", "!", "\"", "}">>) >>

HappyPayload == Concat(HappyFragments)

\* the fragments a payload arrives in, where the exchange fixes them
Fragments(t) == IF t = HappyPayload THEN HappyFragments ELSE <<>>

\* the answers a provider gives to one call of the chat handler: objects the
\* extractor reads, objects only encoding/json reads, plain text, nothing
CallPayloads ==
    { HappyPayload,
      ObjectText(<<Member(<<"e", "m", "o", "t", "i", "o", "n">>, <<"S", "a", "d">>),
                   Member(<<"r", "e", "p", "l", "y">>, <<"h", "i">>)>>),
      ObjectText(<<Member(<<"R", "e", "p", "l", "y">>, <<"y", "o">>),
                   Member(<<"E", "m", "o", "t", "i", "o", "n">>, <<"h", "i">>)>>),
      ObjectText(<<Member(<<"r", "e", "p", "l", "y">>, <<"h", "i">>),
                   Member(<<"E", "m", "o", "t", "i", "o", "n">>, <<"h", "i">>)>>),
      ObjectText(<<Member(<<"r", "e", "p", "l", "y">>, <<>>)>>),
      ObjectText(<<Member(<<"r", "e", "p", "l", "y">>, <<" ">>)>>),
      ObjectText(<<Member(<<"r", "e", "p", "l", "y">>, <<" ">>),
                   Member(<<"R", "e", "p", "l", "y">>, <<"y", "o">>)>>),
      Str(<<"z">>) \o ObjectText(<<Member(<<"r", "e", "p", "l", "y">>, <<"h", "i">>)>>),
      Str(<<"h", "i", " ">>),
      <<>> }

CallEmotionLists ==
    { <<Str(<<" ">>)>>,
      <<Str(<<" ">>), Str(<<"S", "a", "d">>), Str(<<"h", "i">>)>>,
      <<Str(<<"h", "a", "p", "p", "y">>)>> }

\* the refusal text of an answer that refuses
RefusalTexts == {Str(<<"n", "o">>)}

NoReply == [Text |-> <<>>, Emotion |-> <<>>]

\* nothing but frames was read, nothing came after the terminator
NoWire == [lines |-> 0, late |-> 0]

\* the concatenation of the content deltas read so far (rawBuilder)
Raw == SubSeq(payload, 1, pos)

\* an escape of the reply value is pending in p
EscapePending(p) ==
    p.mode = "value" /\ p.currentKeyName = KeyReply
        /\ (p.escape \/ p.unicodeLeft > 0)

\* the state of a StreamReply call when the stream was opened
StreamStart ==
    /\ payload \in Payloads
    /\ emotions \in EmotionLists
    /\ pos = 0
    /\ parser = newJSONStreamParser
    /\ delivered = <<>>
    /\ emotionCalls = <<>>
    /\ cutInEscape = FALSE
    /\ streamPc = "reading"
    /\ streamResult = [err |-> "", reply |-> NoReply]
    /\ refusal = <<>>
    /\ badFrames = 0
    /\ callbackFails = "none"
    /\ wire = NoWire

\* the sizes the next content delta may have: the fragment that starts here
\* where the fragments are fixed, any size up to MaxChunk, or all that is left
ChunkSizes ==
    IF Fragments(payload) # <<>>
    THEN {Len(Fragments(payload)[i]) : i \in
             {j \in 1..Len(Fragments(payload)) :
                 Len(Concat(SubSeq(Fragments(payload), 1, j - 1))) = pos}}
    ELSE {n \in (1..MaxChunk) \cup {Len(payload) - pos} :
             n >= 1 /\ n <= Len(payload) - pos}

\* the parser as Feed leaves it when onEmotion returns an error: the value
\* is stored, the rest of the closing quote and of the text is not done
FeedAbort(p, text) ==
    LET Fired(k) ==
            FeedRunes([p |-> p, fired |-> <<>>], text, 1, k).fired # <<>>
        k == CHOOSE i \in 1..Len(text) : Fired(i) /\ ~Fired(i - 1)
        q == FeedRunes([p |-> p, fired |-> <<>>], text, 1, k - 1).p
    IN [q EXCEPT !.inString = FALSE, !.emotion = q.currentValue]

\* StreamFeed, had the loop gone on whatever Feed returned
StreamFeedGoesOn ==
    /\ streamPc = "reading"
    /\ \E n \in ChunkSizes :
         \E f \in {Feed(parser, SubSeq(payload, pos + 1, pos + n))} :
             /\ parser' = f.p
             /\ delivered' = delivered \o Concat(f.replies)
             /\ emotionCalls' = emotionCalls \o f.fired
             /\ cutInEscape' = (cutInEscape \/ EscapePending(f.p))
             /\ pos' = pos + n
    /\ UNCHANGED <<payload, emotions, refusal, badFrames, callbackFails,
                   wire, streamPc, streamResult>>

\* one data frame whose delta carries the next n runes of the payload
StreamFeed ==
    /\ streamPc = "reading"
    /\ \E n \in ChunkSizes :
         \E f \in {Feed(parser, SubSeq(payload, pos + 1, pos + n))} :
             LET emotionErr == callbackFails = "emotion" /\ f.fired # <<>>
                 chunkErr == callbackFails = "chunk" /\ f.replies # <<>>
             IN /\ parser' =
                       IF emotionErr
                       THEN FeedAbort(parser, SubSeq(payload, pos + 1, pos + n))
                       ELSE IF chunkErr
                       THEN [f.p EXCEPT !.replyChunk = f.replies[1]]
                       ELSE f.p
                /\ delivered' = IF emotionErr THEN delivered
                                ELSE delivered \o Concat(f.replies)
                /\ emotionCalls' =
                       IF emotionErr THEN Append(emotionCalls, f.fired[1])
                       ELSE emotionCalls \o f.fired
                /\ cutInEscape' = (cutInEscape \/ EscapePending(f.p))
                /\ pos' = pos + n
                /\ streamPc' = IF emotionErr \/ chunkErr THEN "returned"
                               ELSE "reading"
                /\ streamResult' =
                       IF emotionErr \/ chunkErr
                       THEN [err |-> "callback", reply |-> NoReply]
                       ELSE streamResult
    /\ UNCHANGED <<payload, emotions, refusal, badFrames, callbackFails,
                   wire>>

\* StreamReply from the end of the loop on, lines 262-297: the parser, the
\* arguments of the onEmotion calls made there, and what is returned
streamFinish(p, raw, rawRefusal, allowed) ==
    LET streamed == TrimSpace(p.replyBuilder)
        rawContent == TrimSpace(raw)
        parsed == IF streamed = <<>> /\ rawContent # <<>>
                  THEN parseAIJSON(rawContent)
                  ELSE NotParsed
        useRaw == parsed.ok /\ parsed.Reply # <<>>
        content == IF useRaw THEN TrimSpace(parsed.Reply) ELSE streamed
        set == IF useRaw /\ p.emotion = <<>>
               THEN SetEmotion(p, parsed.Emotion)
               ELSE [p |-> p, fired |-> <<>>]
        emotion == normalizeEmotion(set.p.emotion, allowed)
    IN [p |-> set.p,
        fired |-> set.fired,
        result |->
            IF content = <<>>
            THEN [err |-> IF TrimSpace(rawRefusal) # <<>>
                          THEN "openai api refused to answer"
                          ELSE "openai api returned empty content",
                  reply |-> NoReply]
            ELSE [err |-> "",
                  reply |-> [Text |-> TrimSpace(content),
                             Emotion |-> IF emotion = <<>>
                                         THEN fallbackEmotion(allowed)
                                         ELSE emotion]]]

\* the [DONE] frame, or the end of the stream, and all that follows it
StreamEnd ==
    /\ streamPc = "reading"
    /\ pos = Len(payload)
    /\ \E f \in {streamFinish(parser, Raw, refusal, emotions)} :
           /\ parser' = f.p
           /\ emotionCalls' = emotionCalls \o f.fired
           /\ streamResult' = f.result
    /\ streamPc' = "returned"
    /\ UNCHANGED <<payload, pos, emotions, delivered, cutInEscape, refusal,
                   badFrames, callbackFails,
                   wire>>

\* a data frame whose delta carries refusal text
StreamRefusal ==
    /\ streamPc = "reading"
    /\ refusal = <<>>
    /\ refusal' \in RefusalTexts
    /\ UNCHANGED <<payload, pos, emotions, parser, delivered, emotionCalls,
                   cutInEscape, streamPc, streamResult, badFrames,
                   callbackFails,
                   wire>>

\* a data frame json.Unmarshal returns an error for: the loop goes on
StreamSkipFrame ==
    /\ streamPc = "reading"
    /\ badFrames < MaxBadFrames
    /\ badFrames' = badFrames + 1
    /\ UNCHANGED <<payload, pos, emotions, parser, delivered, emotionCalls,
                   cutInEscape, streamPc, streamResult, refusal,
                   callbackFails,
                   wire>>

\* StreamOtherLine, had a line that is no frame started the parser afresh
StreamOtherLineResetsParser ==
    /\ streamPc = "reading"
    /\ wire.lines < MaxOtherLines
    /\ wire' = [wire EXCEPT !.lines = @ + 1]
    /\ parser' = newJSONStreamParser
    /\ UNCHANGED <<payload, pos, emotions, delivered, emotionCalls,
                   cutInEscape, streamPc, streamResult, refusal, badFrames,
                   callbackFails>>

\* a line that is blank or does not start with "data:": the loop goes on
StreamOtherLine ==
    /\ streamPc = "reading"
    /\ wire.lines < MaxOtherLines
    /\ wire' = [wire EXCEPT !.lines = @ + 1]
    /\ UNCHANGED <<payload, pos, emotions, parser, delivered, emotionCalls,
                   cutInEscape, streamPc, streamResult, refusal, badFrames,
                   callbackFails>>

\* the loop was left at the terminator and StreamReply has returned
Terminated ==
    /\ streamPc = "returned"
    /\ \/ streamResult.err = "" /\ streamResult.reply # NoReply
       \/ streamResult.err \in {"openai api refused to answer",
                                "openai api returned empty content"}

\* a frame the provider sends after the terminator: the loop was left and
\* the body is closed, nothing reads it
StreamLateFrame ==
    /\ Terminated
    /\ wire.late < MaxLateFrames
    /\ wire' = [wire EXCEPT !.late = @ + 1]
    /\ UNCHANGED <<payload, pos, emotions, parser, delivered, emotionCalls,
                   cutInEscape, streamPc, streamResult, refusal, badFrames,
                   callbackFails>>

\* StreamReadError, had it returned the text decoded so far with the error
StreamReadErrorKeepsText ==
    /\ streamPc = "reading"
    /\ streamPc' = "returned"
    /\ streamResult' = [err |-> "read",
                        reply |-> [Text |-> parser.replyBuilder,
                                   Emotion |-> parser.emotion]]
    /\ UNCHANGED <<payload, pos, emotions, parser, delivered, emotionCalls,
                   cutInEscape, refusal, badFrames, callbackFails,
                   wire>>

\* reader.ReadString fails with an error that is not io.EOF: the connection
\* broke, or the context of the request was cancelled
StreamReadError ==
    /\ streamPc = "reading"
    /\ streamPc' = "returned"
    /\ streamResult' = [err |-> "read", reply |-> NoReply]
    /\ UNCHANGED <<payload, pos, emotions, parser, delivered, emotionCalls,
                   cutInEscape, refusal, badFrames, callbackFails,
                   wire>>

----------------------------------------------------------------------------
(* Transport outcomes and the tests the negotiator makes on errors *)

\* http.StatusBadRequest
StatusBadRequest == 400
\* the statuses of the error class a provider answers with: 400 and another
ErrorStatuses == {StatusBadRequest, 500}

\* a response body, as the set of the words it is made of
Bodies ==
    { {"bad request"},
      {"temperature"},
      {"Temperature", "unsupported_value"},
      {"temperature", "not supported"},
      {"json_schema", "Unsupported"},
      {"Response_Format"},
      {"temperature", "unsupported", "structured outputs"} }

LowerWord(w) ==
    IF w = "Temperature" THEN "temperature"
    ELSE IF w = "Unsupported" THEN "unsupported"
    ELSE IF w = "Response_Format" THEN "response_format"
    ELSE w

\* strings.ToLower(body)
LowerBody(body) == {LowerWord(w) : w \in body}

\* strings.Contains(lowered, marker)
Contains(lowered, marker) ==
    \E w \in lowered :
        w = marker \/ (marker = "unsupported" /\ w = "unsupported_value")

NoError == [kind |-> "none", status |-> 0, body |-> {}]
NetError == [kind |-> "net", status |-> 0, body |-> {}]
MissingKey == [kind |-> "missing OPENAI_API_KEY", status |-> 0, body |-> {}]
ApiErrors ==
    [kind : {"api"}, status : ErrorStatuses,
     body : Bodies]

\* what one HTTP exchange can end in
Outcomes == {NoError, NetError} \cup ApiErrors

\* errors.As(err, &apiErr)
IsApiError(err) == err.kind = "api"

\* shouldFallbackToJSONMode, had it looked at the body only
shouldFallbackAnyStatus(status, body) ==
    LET lowered == LowerBody(body) IN
    \/ Contains(lowered, "response_format")
    \/ Contains(lowered, "json_schema")
    \/ Contains(lowered, "structured outputs")
    \/ Contains(lowered, "not supported")

shouldFallbackToJSONMode(status, body) ==
    IF status # StatusBadRequest THEN FALSE
    ELSE LET lowered == LowerBody(body) IN
         \/ Contains(lowered, "response_format")
         \/ Contains(lowered, "json_schema")
         \/ Contains(lowered, "structured outputs")
         \/ Contains(lowered, "not supported")

shouldRetryWithoutTemperature(status, body) ==
    IF status # StatusBadRequest THEN FALSE
    ELSE LET lowered == LowerBody(body) IN
         /\ Contains(lowered, "temperature")
         /\ (Contains(lowered, "unsupported")
                \/ Contains(lowered, "unsupported_value"))

\* Client.temperature, in tenths
Temperatures == {0, 7}

\* responseFormat.Type of buildStructuredFormat
buildStructuredFormat == "json_schema"

\* the chatRequest both calls start from
NewRequest(t) == [Temperature |-> t, ResponseFormat |-> buildStructuredFormat]

\* ForceTemperature, had the retry kept the configured temperature
ForceTemperatureKeepsDefault(req) == req

\* reqBody.Temperature = 0
ForceTemperature(req) == [req EXCEPT !.Temperature = 0]

\* reqBody.ResponseFormat = responseFormat{Type: "json_object"}
DowngradeFormat(req) == [req EXCEPT !.ResponseFormat = "json_object"]

\* an escalation: the request, the requests sent over HTTP so far, the err
\* variable, the transport calls made, the retries taken, the position
NewCall(t, start) ==
    [req |-> NewRequest(t), attempts |-> <<>>, err |-> NoError, calls |-> 0,
     forced |-> 0, downgraded |-> 0, pc |-> start]

\* doChatRequest, had it sent the request whatever the key
doChatRequestKeyUnchecked(key, m, o) ==
    [m EXCEPT !.err = o, !.calls = @ + 1, !.attempts = Append(@, m.req)]

\* doChatRequest: no request leaves without a key
doChatRequest(key, m, o) ==
    IF key = ""
    THEN [m EXCEPT !.err = MissingKey, !.calls = @ + 1]
    ELSE [m EXCEPT !.err = o, !.calls = @ + 1,
                   !.attempts = Append(@, m.req)]

\* doChatStreamRequest
doChatStreamRequest(key, m, o) ==
    IF key = ""
    THEN [m EXCEPT !.err = MissingKey, !.calls = @ + 1]
    ELSE [m EXCEPT !.err = o, !.calls = @ + 1,
                   !.attempts = Append(@, m.req)]

----------------------------------------------------------------------------
(* GenerateReply, lines 127-148 *)

GenFirst(key, m, o) ==
    LET n == doChatRequest(key, m, o) IN
    [n EXCEPT !.pc = IF n.err # NoError THEN "L129" ELSE "done"]

GenRetryTemp(key, m, o) ==
    IF IsApiError(m.err) /\ shouldRetryWithoutTemperature(m.err.status, m.err.body)
    THEN [doChatRequest(key, [m EXCEPT !.req = ForceTemperature(@),
                                       !.forced = @ + 1], o)
             EXCEPT !.pc = "L133"]
    ELSE [m EXCEPT !.pc = "L133"]

GenFallbackJSON(key, m, o) ==
    IF m.err # NoError /\ IsApiError(m.err)
       /\ shouldFallbackToJSONMode(m.err.status, m.err.body)
    THEN [doChatRequest(key, [m EXCEPT !.req = DowngradeFormat(@),
                                       !.downgraded = @ + 1], o)
             EXCEPT !.pc = "L139"]
    ELSE [m EXCEPT !.pc = "L139"]

\* GenRetryTempAgain, had it not tested that the temperature is still set
GenRetryTempAgainUnguarded(key, m, o) ==
    IF m.err # NoError /\ IsApiError(m.err)
       /\ shouldRetryWithoutTemperature(m.err.status, m.err.body)
    THEN [doChatRequest(key, [m EXCEPT !.req = ForceTemperature(@),
                                       !.forced = @ + 1], o)
             EXCEPT !.pc = "L145"]
    ELSE [m EXCEPT !.pc = "L145"]

GenRetryTempAgain(key, m, o) ==
    IF m.err # NoError /\ IsApiError(m.err)
       /\ shouldRetryWithoutTemperature(m.err.status, m.err.body)
       /\ m.req.Temperature # 0
    THEN [doChatRequest(key, [m EXCEPT !.req = ForceTemperature(@),
                                       !.forced = @ + 1], o)
             EXCEPT !.pc = "L145"]
    ELSE [m EXCEPT !.pc = "L145"]

GenReturn(m) == [m EXCEPT !.pc = "done"]

----------------------------------------------------------------------------
(* doChatStreamRequestWithFallback, lines 336-360 *)

StreamFirst(key, m, o) ==
    LET n == doChatStreamRequest(key, m, o) IN
    [n EXCEPT !.pc = IF n.err # NoError THEN "L339" ELSE "done"]

\* StreamRetryTemp, had the streaming path lacked the first temperature retry
StreamRetryTempSkipped(key, m, o) == [m EXCEPT !.pc = "L343"]

StreamRetryTemp(key, m, o) ==
    IF IsApiError(m.err) /\ shouldRetryWithoutTemperature(m.err.status, m.err.body)
    THEN [doChatStreamRequest(key, [m EXCEPT !.req = ForceTemperature(@),
                                             !.forced = @ + 1], o)
             EXCEPT !.pc = "L343"]
    ELSE [m EXCEPT !.pc = "L343"]

StreamFallbackJSON(key, m, o) ==
    IF m.err # NoError /\ IsApiError(m.err)
       /\ shouldFallbackToJSONMode(m.err.status, m.err.body)
    THEN [doChatStreamRequest(key, [m EXCEPT !.req = DowngradeFormat(@),
                                             !.downgraded = @ + 1], o)
             EXCEPT !.pc = "L349"]
    ELSE [m EXCEPT !.pc = "L349"]

\* StreamRetryTempAgain, had the retry been sent with a freshly built request
StreamRetryTempAgainRebuilt(key, m, o) ==
    IF m.err # NoError /\ IsApiError(m.err)
       /\ shouldRetryWithoutTemperature(m.err.status, m.err.body)
       /\ m.req.Temperature # 0
    THEN [doChatStreamRequest(key, [m EXCEPT !.req = NewRequest(0),
                                             !.forced = @ + 1], o)
             EXCEPT !.pc = "L355"]
    ELSE [m EXCEPT !.pc = "L355"]

StreamRetryTempAgain(key, m, o) ==
    IF m.err # NoError /\ IsApiError(m.err)
       /\ shouldRetryWithoutTemperature(m.err.status, m.err.body)
       /\ m.req.Temperature # 0
    THEN [doChatStreamRequest(key, [m EXCEPT !.req = ForceTemperature(@),
                                             !.forced = @ + 1], o)
             EXCEPT !.pc = "L355"]
    ELSE [m EXCEPT !.pc = "L355"]

StreamReturn(m) == [m EXCEPT !.pc = "done"]

----------------------------------------------------------------------------
(* The two escalations, driven by one sequence of transport outcomes *)

\* the outcome of the k-th transport call: the one already drawn, or any
NextOutcomes(k) == IF k <= Len(script) THEN {script[k]} ELSE Outcomes

Record(m, o) == IF m.calls > Len(script) THEN Append(script, o) ELSE script

GenerateReplyFirst ==
    /\ gen.pc = "L127"
    /\ \E o \in NextOutcomes(gen.calls + 1) :
         /\ gen' = GenFirst(apiKey, gen, o)
         /\ script' = Record(gen', o)
    /\ UNCHANGED <<apiKey, str>>

GenerateReplyRetryTemp ==
    /\ gen.pc = "L129"
    /\ \E o \in NextOutcomes(gen.calls + 1) :
         /\ gen' = GenRetryTemp(apiKey, gen, o)
         /\ script' = Record(gen', o)
    /\ UNCHANGED <<apiKey, str>>

GenerateReplyFallbackJSON ==
    /\ gen.pc = "L133"
    /\ \E o \in NextOutcomes(gen.calls + 1) :
         /\ gen' = GenFallbackJSON(apiKey, gen, o)
         /\ script' = Record(gen', o)
    /\ UNCHANGED <<apiKey, str>>

GenerateReplyRetryTempAgain ==
    /\ gen.pc = "L139"
    /\ \E o \in NextOutcomes(gen.calls + 1) :
         /\ gen' = GenRetryTempAgain(apiKey, gen, o)
         /\ script' = Record(gen', o)
    /\ UNCHANGED <<apiKey, str>>

GenerateReplyReturn ==
    /\ gen.pc = "L145"
    /\ gen' = GenReturn(gen)
    /\ UNCHANGED <<apiKey, script, str>>

StreamRequestFirst ==
    /\ str.pc = "L337"
    /\ \E o \in NextOutcomes(str.calls + 1) :
         /\ str' = StreamFirst(apiKey, str, o)
         /\ script' = Record(str', o)
    /\ UNCHANGED <<apiKey, gen>>

StreamRequestRetryTemp ==
    /\ str.pc = "L339"
    /\ \E o \in NextOutcomes(str.calls + 1) :
         /\ str' = StreamRetryTemp(apiKey, str, o)
         /\ script' = Record(str', o)
    /\ UNCHANGED <<apiKey, gen>>

StreamRequestFallbackJSON ==
    /\ str.pc = "L343"
    /\ \E o \in NextOutcomes(str.calls + 1) :
         /\ str' = StreamFallbackJSON(apiKey, str, o)
         /\ script' = Record(str', o)
    /\ UNCHANGED <<apiKey, gen>>

StreamRequestRetryTempAgain ==
    /\ str.pc = "L349"
    /\ \E o \in NextOutcomes(str.calls + 1) :
         /\ str' = StreamRetryTempAgain(apiKey, str, o)
         /\ script' = Record(str', o)
    /\ UNCHANGED <<apiKey, gen>>

StreamRequestReturn ==
    /\ str.pc = "L355"
    /\ str' = StreamReturn(str)
    /\ UNCHANGED <<apiKey, script, gen>>

----------------------------------------------------------------------------
(* The calls of the chat handler: GenerateReply, StreamReply, streamChat *)

\* err.Error() of what an escalation ends with, by its kind
ErrorText(e) == IF IsApiError(e) THEN "openai api error" ELSE e.kind

\* GenerateReply from line 150 on: the answer has n choices, the first with
\* the given content and refusal
\* ReplyOf, had content that is no JSON object been an error
ReplyOfStrict(n, rawContent, rawRefusal, allowed) ==
    IF n = 0
    THEN [err |-> "openai api returned no choices", reply |-> NoReply]
    ELSE IF TrimSpace(rawContent) = <<>>
    THEN [err |-> IF TrimSpace(rawRefusal) # <<>>
                  THEN "openai api refused to answer"
                  ELSE "openai api returned empty content",
          reply |-> NoReply]
    ELSE CHOOSE out \in
        {IF ~aiPayload.ok \/ aiPayload.Reply = <<>>
         THEN [err |-> "openai api returned invalid json", reply |-> NoReply]
         ELSE [err |-> "",
               reply |-> [Text |-> TrimSpace(aiPayload.Reply),
                          Emotion |->
                              IF normalizeEmotion(aiPayload.Emotion, allowed) = <<>>
                              THEN fallbackEmotion(allowed)
                              ELSE normalizeEmotion(aiPayload.Emotion, allowed)]] :
         aiPayload \in {parseAIJSON(TrimSpace(rawContent))}} : TRUE

ReplyOf(n, rawContent, rawRefusal, allowed) ==
    IF n = 0
    THEN [err |-> "openai api returned no choices", reply |-> NoReply]
    ELSE IF TrimSpace(rawContent) = <<>>
    THEN [err |-> IF TrimSpace(rawRefusal) # <<>>
                  THEN "openai api refused to answer"
                  ELSE "openai api returned empty content",
          reply |-> NoReply]
    ELSE CHOOSE out \in
        {IF ~aiPayload.ok \/ aiPayload.Reply = <<>>
         THEN [err |-> "",
               reply |-> [Text |-> TrimSpace(rawContent),
                          Emotion |-> fallbackEmotion(allowed)]]
         ELSE [err |-> "",
               reply |-> [Text |-> TrimSpace(aiPayload.Reply),
                          Emotion |->
                              IF normalizeEmotion(aiPayload.Emotion, allowed) = <<>>
                              THEN fallbackEmotion(allowed)
                              ELSE normalizeEmotion(aiPayload.Emotion, allowed)]] :
         aiPayload \in {parseAIJSON(TrimSpace(rawContent))}} : TRUE

\* GenerateReply once the escalation is over, lines 145-178
GenerateReplyFinish ==
    /\ genPc = "calling"
    /\ gen.pc = "done"
    /\ genPc' = "returned"
    /\ genResult' = IF gen.err # NoError
                    THEN [err |-> ErrorText(gen.err), reply |-> NoReply]
                    ELSE ReplyOf(choices, payload, refusal, emotions)
    /\ UNCHANGED <<streamVars, negVars, choices, chat, restVars>>

\* StreamReply once the escalation is over, lines 211-220
StreamReplyOpen ==
    /\ streamPc = "opening"
    /\ str.pc = "done"
    /\ streamPc' = IF str.err # NoError THEN "returned" ELSE "reading"
    /\ streamResult' = IF str.err # NoError
                       THEN [err |-> ErrorText(str.err), reply |-> NoReply]
                       ELSE streamResult
    /\ UNCHANGED <<payload, pos, emotions, parser, delivered, emotionCalls,
                   cutInEscape, refusal, badFrames, callbackFails,
                   wire>>
    /\ UNCHANGED <<negVars, callVars, restVars>>

\* the chat handler at rest: no event written, no assistant message stored
NoChat == [pc |-> "done", stored |-> <<>>, event |-> "", events |-> <<>>]

\* streamChat up to its call of StreamReply, lines 335-353: the meta event
\* is written, or the write fails and the handler returns
StreamChatMeta ==
    /\ chat.pc = "meta"
    /\ \E written \in BOOLEAN :
         chat' = IF written
                 THEN [chat EXCEPT !.pc = "waiting",
                                   !.events = Append(@, "meta")]
                 ELSE [chat EXCEPT !.pc = "done"]
    /\ UNCHANGED <<streamVars, negVars, genPc, genResult, choices,
                   restVars>>

\* streamChat calls StreamReply, line 356
StreamChatCall ==
    /\ chat.pc = "waiting"
    /\ StreamReplyOpen

\* one content delta of the stream, and the callback of streamChat when Feed
\* invokes it, lines 356-359: the token event is written, unless the write
\* fails
StreamChatToken ==
    /\ chat.pc = "waiting"
    /\ StreamFeed
    /\ chat' = IF delivered' # delivered /\ callbackFails # "chunk"
               THEN [chat EXCEPT !.events = Append(@, "token")]
               ELSE chat
    /\ UNCHANGED <<negVars, genPc, genResult, choices, restVars>>

\* StreamChatFinish, had it gone on after the store failed
StreamChatFinishNoReturn ==
    /\ chat.pc = "waiting"
    /\ streamPc = "returned"
    /\ \E stores \in BOOLEAN :
         chat' = IF streamResult.err # ""
                 THEN [chat EXCEPT !.pc = "done", !.event = "error",
                                   !.events = Append(@, "error")]
                 ELSE IF stores
                 THEN [chat EXCEPT !.pc = "done", !.event = "done",
                                   !.events = Append(@, "done"),
                                   !.stored = Append(@, streamResult.reply)]
                 ELSE [chat EXCEPT !.pc = "done", !.event = "done",
                                   !.events = @ \o <<"error", "done">>]
    /\ UNCHANGED <<streamVars, negVars, genPc, genResult, choices,
                   restVars>>

\* StreamChatFinish, had it stored what was collected when the call failed
StreamChatFinishStoresCollected ==
    /\ chat.pc = "waiting"
    /\ streamPc = "returned"
    /\ \E stores \in BOOLEAN :
         chat' = IF streamResult.err # ""
                 THEN [chat EXCEPT !.pc = "done", !.event = "error",
                                   !.events = Append(@, "error"),
                                   !.stored = Append(@,
                                       [Text |-> delivered,
                                        Emotion |-> parser.emotion])]
                 ELSE IF stores
                 THEN [chat EXCEPT !.pc = "done", !.event = "done",
                                   !.events = Append(@, "done"),
                                   !.stored = Append(@, streamResult.reply)]
                 ELSE [chat EXCEPT !.pc = "done", !.event = "error",
                                   !.events = Append(@, "error")]
    /\ UNCHANGED <<streamVars, negVars, genPc, genResult, choices,
                   restVars>>

\* streamChat once StreamReply has returned, lines 360-382; CreateChatMessage
\* stores the message or fails
StreamChatFinish ==
    /\ chat.pc = "waiting"
    /\ streamPc = "returned"
    /\ \E stores \in BOOLEAN :
         chat' = IF streamResult.err # ""
                 THEN [chat EXCEPT !.pc = "done", !.event = "error",
                                   !.events = Append(@, "error")]
                 ELSE IF stores
                 THEN [chat EXCEPT !.pc = "done", !.event = "done",
                                   !.events = Append(@, "done"),
                                   !.stored = Append(@, streamResult.reply)]
                 ELSE [chat EXCEPT !.pc = "done", !.event = "error",
                                   !.events = Append(@, "error")]
    /\ UNCHANGED <<streamVars, negVars, genPc, genResult, choices,
                   restVars>>

----------------------------------------------------------------------------
(* A jsonStreamParser fed chunk by chunk *)

EscapedQuoteSrc == <<"\\", "\"", ",">>
OtherSelectorSrc == <<"\\", "q", "\\", "u", "0", "0", "4", "1">>
NoHexSrc == <<"\\", "u", "z", "z", "9", "!", "a">>
EscapedEmotionSrc == <<"\\", "u", "0", "0", "5", "3", "a", "d">>
BackslashSrc == <<"\\", "\\">>
EscapedKeySrc == <<"\\", "u", "0", "0", "7", "8", "\\", "q">>

\* objects whose fields try the tracking of strings and of escapes
FeedObjects ==
    { <<Member(<<"e", "m", "o", "t", "i", "o", "n">>, <<"S", "a", "d">>),
        Member(<<"r", "e", "p", "l", "y">>, <<"h", "i">>)>>,
      <<Member(<<"r", "e", "p", "l", "y">>, <<"h", "i">>),
        Member(<<"e", "m", "o", "t", "i", "o", "n">>, <<"S", "a", "d">>)>>,
      <<Member(<<"x">>, EscapedQuoteSrc),
        Member(<<"r", "e", "p", "l", "y">>, <<"h", "i">>)>>,
      <<Member(<<"x">>, <<"z">>),
        Member(<<"e", "m", "o", "t", "i", "o", "n">>, <<"S", "a", "d">>),
        Member(<<"r", "e", "p", "l", "y">>, UEscapeSrc)>>,
      <<Member(<<"r", "e", "p", "l", "y">>, OtherSelectorSrc)>>,
      <<Member(<<"r", "e", "p", "l", "y">>, NoHexSrc)>>,
      <<Member(<<"e", "m", "o", "t", "i", "o", "n">>, EscapedEmotionSrc),
        Member(<<"x">>, <<":">>),
        Member(<<"r", "e", "p", "l", "y">>, <<"h", "i">>)>>,
      <<Member(<<"x">>, <<>>),
        Member(<<"r", "e", "p", "l", "y">>, BackslashSrc)>>,
      <<Member(<<"x">>, BackslashSrc),
        Member(<<"e", "m", "o", "t", "i", "o", "n">>, <<"S", "a", "d">>)>>,
      <<Member(EscapedKeySrc, <<"z">>),
        Member(<<"r", "e", "p", "l", "y">>, <<"h", "i">>)>> }

FeedTexts == {ObjectText(ms) : ms \in FeedObjects}

\* the callbacks one Feed call invokes, in the order it invokes them:
\* onEmotion inside the loop, onReply after it
FeedCallbacks(f) ==
    [i \in 1..Len(f.fired) |-> [cb |-> "onEmotion", arg |-> f.fired[i]]]
        \o [i \in 1..Len(f.replies) |-> [cb |-> "onReply", arg |-> f.replies[i]]]

\* no parser in use
FeedIdle ==
    /\ ftext = <<>>
    /\ fpos = 0
    /\ fp = newJSONStreamParser
    /\ fcalls = <<>>
    /\ feeds = 0

\* a parser as newJSONStreamParser returns it, and the text it will be fed
FeedStart ==
    /\ ftext \in FeedTexts
    /\ fpos = 0
    /\ fp = newJSONStreamParser
    /\ fcalls = <<>>
    /\ feeds = 0

\* one Feed call, on the next n runes of the text
FeedCall ==
    /\ fpos < Len(ftext)
    /\ \E n \in (1..MaxChunk) \cup {Len(ftext) - fpos} :
         /\ n <= Len(ftext) - fpos
         /\ \E f \in {Feed(fp, SubSeq(ftext, fpos + 1, fpos + n))} :
                /\ fp' = f.p
                /\ fcalls' = fcalls \o FeedCallbacks(f)
         /\ fpos' = fpos + n
    /\ feeds' = feeds + 1
    /\ UNCHANGED ftext

----------------------------------------------------------------------------
(* RateLimiter *)

\* the addresses the requests come from
ClientIPs == {"a", "b"}
\* the requests inside the middleware
Requests == 1..MaxInFlight
\* the clientLimiter objects that can be reachable at once
Cells == 1..(Cardinality(ClientIPs) + MaxInFlight)

\* the configuration, the tick being a minute: a window of one minute, one
\* request a window, a burst of two, a block of four minutes after two
\* strikes
window == 1
requests == 1
burst == 2
blockDuration == 4
maxStrikes == 2
Minute == 1

\* rate.Every(window / requests): the ticks between two tokens
interval == window \div requests

\* the zero time.Time, before every instant of the clock
ZeroTime == 0

\* a cell no clientLimiter stands in
NoEntry ==
    [tokens |-> 0, last |-> ZeroTime, lastSeen |-> ZeroTime,
     blockedUntil |-> ZeroTime, strikes |-> 0]

\* &clientLimiter{limiter: rate.NewLimiter(r.rate, r.burst), lastSeen: now}:
\* a full bucket never used
newClientLimiter(now) ==
    [tokens |-> burst, last |-> ZeroTime, lastSeen |-> now,
     blockedUntil |-> ZeroTime, strikes |-> 0]

\* Limiter.Allow, had a token been free of charge
LimiterAllowFree(cl, t) ==
    [ok |-> TRUE, tokens |-> cl.tokens, last |-> cl.last]

\* Limiter.Allow at time t: the tokens of the time elapsed since the last
\* one taken are added up to the burst, one is taken when there is one, and
\* a refusal leaves the bucket as it was
LimiterAllow(cl, t) ==
    LET elapsed == IF t > cl.last THEN t - cl.last ELSE 0
        refilled == cl.tokens + elapsed \div interval
        tokens == IF refilled > burst THEN burst ELSE refilled
    IN IF tokens >= 1
       THEN [ok |-> TRUE, tokens |-> tokens - 1, last |-> t]
       ELSE [ok |-> FALSE, tokens |-> cl.tokens, last |-> cl.last]

\* the seconds of a tick
SecondsPerTick == 60
\* time.Second, in the nanoseconds a time.Duration counts
Second == 1000000000

\* retryAfter: the seconds left, one at least, and a half are converted to
\* a time.Duration, which counts them as nanoseconds, and that Duration is
\* truncated to a multiple of time.Second
retryAfter(until, now) ==
    LET left == (until - now) * SecondsPerTick
        seconds == IF left < 1 THEN 1 ELSE left
    IN seconds - (seconds % Second)

\* allow from cl.lastSeen = now on, had a request met by a block been a
\* strike that renews the block
allowDecideRenewsBlock(cl, now, t) ==
    LET seen == [cl EXCEPT !.lastSeen = now] IN
    IF now < seen.blockedUntil
    THEN [blocked |-> TRUE,
          retryAfter |-> retryAfter(now + blockDuration, now),
          cl |-> [seen EXCEPT !.blockedUntil = now + blockDuration]]
    ELSE LET a == LimiterAllow(seen, t) IN
         IF a.ok
         THEN [blocked |-> FALSE, retryAfter |-> 0,
               cl |-> [seen EXCEPT !.tokens = a.tokens, !.last = a.last,
                                   !.strikes = 0]]
         ELSE IF seen.strikes + 1 >= maxStrikes
         THEN [blocked |-> TRUE,
               retryAfter |-> retryAfter(now + blockDuration, now),
               cl |-> [seen EXCEPT !.blockedUntil = now + blockDuration,
                                   !.strikes = 0]]
         ELSE [blocked |-> TRUE, retryAfter |-> retryAfter(now + window, now),
               cl |-> [seen EXCEPT !.strikes = @ + 1]]

\* allow from cl.lastSeen = now on, had the strikes been left standing when
\* the block is set
allowDecideKeepsStrikes(cl, now, t) ==
    LET seen == [cl EXCEPT !.lastSeen = now] IN
    IF now < seen.blockedUntil
    THEN [blocked |-> TRUE, retryAfter |-> retryAfter(seen.blockedUntil, now),
          cl |-> seen]
    ELSE LET a == LimiterAllow(seen, t) IN
         IF a.ok
         THEN [blocked |-> FALSE, retryAfter |-> 0,
               cl |-> [seen EXCEPT !.tokens = a.tokens, !.last = a.last,
                                   !.strikes = 0]]
         ELSE IF seen.strikes + 1 >= maxStrikes
         THEN [blocked |-> TRUE,
               retryAfter |-> retryAfter(now + blockDuration, now),
               cl |-> [seen EXCEPT !.blockedUntil = now + blockDuration,
                                   !.strikes = @ + 1]]
         ELSE [blocked |-> TRUE, retryAfter |-> retryAfter(now + window, now),
               cl |-> [seen EXCEPT !.strikes = @ + 1]]

\* allow from cl.lastSeen = now on: the block, the bucket, the strikes. now
\* is the time allow read, t the time the bucket reads.
allowDecide(cl, now, t) ==
    LET seen == [cl EXCEPT !.lastSeen = now] IN
    IF now < seen.blockedUntil
    THEN [blocked |-> TRUE, retryAfter |-> retryAfter(seen.blockedUntil, now),
          cl |-> seen]
    ELSE LET a == LimiterAllow(seen, t) IN
         IF a.ok
         THEN [blocked |-> FALSE, retryAfter |-> 0,
               cl |-> [seen EXCEPT !.tokens = a.tokens, !.last = a.last,
                                   !.strikes = 0]]
         ELSE IF seen.strikes + 1 >= maxStrikes
         THEN [blocked |-> TRUE,
               retryAfter |-> retryAfter(now + blockDuration, now),
               cl |-> [seen EXCEPT !.blockedUntil = now + blockDuration,
                                   !.strikes = 0]]
         ELSE [blocked |-> TRUE, retryAfter |-> retryAfter(now + window, now),
               cl |-> [seen EXCEPT !.strikes = @ + 1]]

\* cleanup, had it looked at the time an entry was last seen only
cleanupIgnoresBlock(cs, h, last, now) ==
    IF now - last < Minute
    THEN [clients |-> cs, lastCleanup |-> last]
    ELSE [clients |->
              [k \in ClientIPs |->
                  IF cs[k] # 0 /\ now - h[cs[k]].lastSeen > 2 * window
                  THEN 0 ELSE cs[k]],
          lastCleanup |-> now]

\* cleanup: once a minute, the entries seen more than two windows ago whose
\* block is over are deleted
cleanup(cs, h, last, now) ==
    IF now - last < Minute
    THEN [clients |-> cs, lastCleanup |-> last]
    ELSE [clients |->
              [k \in ClientIPs |->
                  IF /\ cs[k] # 0
                     /\ now - h[cs[k]].lastSeen > 2 * window
                     /\ now > h[cs[k]].blockedUntil
                  THEN 0 ELSE cs[k]],
          lastCleanup |-> now]

\* the cells the map or a request refers to
Reachable(cs, rq) ==
    ({cs[k] : k \in ClientIPs} \cup {rq[p].cl : p \in Requests}) \ {0}

\* the heap once the cells nothing refers to are gone
Collect(h, cs, rq) ==
    [i \in Cells |-> IF i \in Reachable(cs, rq) THEN h[i] ELSE NoEntry]

\* a request outside allow
NoRequest == [pc |-> "idle", key |-> "", now |-> ZeroTime, cl |-> 0]

\* the limiter as NewRateLimiter returns it, no request made
LimStart ==
    /\ clock = 1
    /\ mu = 0
    /\ clients = [k \in ClientIPs |-> 0]
    /\ heap = [i \in Cells |-> NoEntry]
    /\ lastCleanup = 1
    /\ reqs = [p \in Requests |-> NoRequest]
    /\ answer = "none"
    /\ retry = 0
    /\ passed = [k \in ClientIPs |-> 0]
    /\ rejected = [k \in ClientIPs |-> 0]

\* Lock, had allow run without the mutex
LockNoMutex(p) ==
    /\ reqs[p].pc = "idle"
    /\ mu' = p
    /\ \E c \in {cleanup(clients, heap, lastCleanup, clock)} :
           /\ clients' = c.clients
           /\ lastCleanup' = c.lastCleanup
           /\ \E k \in ClientIPs :
                  reqs' = [reqs EXCEPT ![p] = [pc |-> "lookup", key |-> k,
                                               now |-> clock, cl |-> 0]]
           /\ heap' = Collect(heap, c.clients, reqs')
    /\ UNCHANGED <<clock, answer, retry, passed, rejected>>

\* a request to a route of /api/v1 enters the middleware: allow, called with
\* its key, takes the mutex, reads the time and runs cleanup
Lock(p) ==
    /\ reqs[p].pc = "idle"
    /\ mu = 0
    /\ mu' = p
    /\ \E c \in {cleanup(clients, heap, lastCleanup, clock)} :
           /\ clients' = c.clients
           /\ lastCleanup' = c.lastCleanup
           /\ \E k \in ClientIPs :
                  reqs' = [reqs EXCEPT ![p] = [pc |-> "lookup", key |-> k,
                                               now |-> clock, cl |-> 0]]
           /\ heap' = Collect(heap, c.clients, reqs')
    /\ UNCHANGED <<clock, answer, retry, passed, rejected>>

\* cl, exists := r.clients[key]
Lookup(p) ==
    /\ reqs[p].pc = "lookup"
    /\ reqs' = [reqs EXCEPT ![p].cl = clients[reqs[p].key],
                          ![p].pc = IF clients[reqs[p].key] = 0
                                    THEN "create" ELSE "decide"]
    /\ UNCHANGED <<clock, mu, clients, heap, lastCleanup, answer, retry, passed,
                   rejected>>

\* the entry of a key that has none
Create(p) ==
    /\ reqs[p].pc = "create"
    /\ \E id \in {CHOOSE i \in Cells \ Reachable(clients, reqs) :
                     \A j \in Cells \ Reachable(clients, reqs) : i <= j} :
           /\ clients' = [clients EXCEPT ![reqs[p].key] = id]
           /\ reqs' = [reqs EXCEPT ![p].cl = id, ![p].pc = "decide"]
           /\ heap' = Collect([heap EXCEPT ![id] = newClientLimiter(reqs[p].now)],
                              clients', reqs')
    /\ UNCHANGED <<clock, mu, lastCleanup, answer, retry, passed, rejected>>

\* the rest of allow, the mutex released, and the answer of the middleware
Decide(p) ==
    /\ reqs[p].pc = "decide"
    /\ \E d \in {allowDecide(heap[reqs[p].cl], reqs[p].now, clock)} :
           /\ reqs' = [reqs EXCEPT ![p] = NoRequest]
           /\ answer' = IF d.blocked THEN "429" ELSE "next"
           /\ retry' = d.retryAfter
           /\ heap' = Collect([heap EXCEPT ![reqs[p].cl] = d.cl], clients, reqs')
           /\ passed' = [passed EXCEPT ![reqs[p].key] =
                            IF d.blocked \/ @ > burst THEN @ ELSE @ + 1]
           /\ rejected' = [rejected EXCEPT ![reqs[p].key] =
                              IF ~d.blocked THEN 0
                              ELSE IF @ > maxStrikes THEN @ ELSE @ + 1]
    /\ mu' = 0
    /\ UNCHANGED <<clock, clients, lastCleanup>>

\* a minute passes. allow waits for nothing once it holds the mutex: the
\* time it reads and the time its bucket reads are in the same tick.
Tick ==
    /\ clock < MaxClock
    /\ \A p \in Requests : reqs[p].pc = "idle"
    /\ clock' = clock + 1
    /\ passed' = [k \in ClientIPs |-> 0]
    /\ UNCHANGED <<mu, clients, heap, lastCleanup, reqs, answer, retry, rejected>>

----------------------------------------------------------------------------
(* Two calls on one Client *)

\* the Client as NewClient returns it
PairClient ==
    [apiKey |-> "k", temperature |-> 7,
     emotions |-> <<Str(<<" ">>), Str(<<"S", "a", "d">>), Str(<<"h", "i">>)>>]

\* what a transport call of either call can end in: success, a network
\* error, a 400 against the temperature, a 400 against the schema
PairOutcomes ==
    { NoError, NetError,
      [kind |-> "api", status |-> StatusBadRequest,
       body |-> {"Temperature", "unsupported_value"}],
      [kind |-> "api", status |-> StatusBadRequest,
       body |-> {"json_schema", "Unsupported"}] }

\* the content of an answer, in the deltas a stream carries it in
SadFrames ==
    << Str(<<"{", "\"", "r", "e", "p", "l", "y", "\"", ":", "\"", "h">>),
       Str(<<"i", "\"", ",", "\"", "e", "m", "o", "t", "i", "o", "n", "\"",
             ":", "\"", "S", "a", "d", "\"", "}">>) >>

PairFrames == {HappyFragments, SadFrames}

\* the locals of a call not yet made
NewPairCall(kind, frames) ==
    [kind |-> kind, frames |-> frames, pc |-> "new",
     m |-> NewCall(0, "done"), outs |-> <<>>, fed |-> 0,
     p |-> newJSONStreamParser, replies |-> <<>>, fired |-> <<>>,
     result |-> [err |-> "", reply |-> NoReply]]

\* the Client after a step of an escalation, had reqBody been the Client's
ClientAfterSharedRequest(c, m) ==
    [c EXCEPT !.temperature = m.req.Temperature]

\* the Client after a step of an escalation: reqBody is a value of the call,
\* no field of the Client is assigned
ClientAfter(c, m) == c

\* the step of the escalation that m.pc names
EscalationStep(kind, key, m, o) ==
    IF kind = "gen"
    THEN CASE m.pc = "L127" -> GenFirst(key, m, o)
           [] m.pc = "L129" -> GenRetryTemp(key, m, o)
           [] m.pc = "L133" -> GenFallbackJSON(key, m, o)
           [] m.pc = "L139" -> GenRetryTempAgain(key, m, o)
           [] OTHER -> GenReturn(m)
    ELSE CASE m.pc = "L337" -> StreamFirst(key, m, o)
           [] m.pc = "L339" -> StreamRetryTemp(key, m, o)
           [] m.pc = "L343" -> StreamFallbackJSON(key, m, o)
           [] m.pc = "L349" -> StreamRetryTempAgain(key, m, o)
           [] OTHER -> StreamReturn(m)

\* no call under way
PairIdle ==
    /\ shared = PairClient
    /\ calls = [i \in {1, 2} |-> [NewPairCall("gen", <<>>) EXCEPT
                                     !.pc = "returned"]]

\* two calls about to be made
PairStart ==
    /\ shared = PairClient
    /\ calls \in [{1, 2} -> {NewPairCall(kind, frames) :
                                kind \in {"gen", "stream"},
                                frames \in PairFrames}]

\* reqBody := chatRequest{..., Temperature: c.temperature, ...}
PairBuild(i) ==
    /\ calls[i].pc = "new"
    /\ calls' = [calls EXCEPT
           ![i].m = NewCall(shared.temperature,
                            IF calls[i].kind = "gen" THEN "L127" ELSE "L337"),
           ![i].pc = "escalating"]
    /\ UNCHANGED shared

\* one step of the escalation of the call
PairAttempt(i) ==
    /\ calls[i].pc = "escalating"
    /\ calls[i].m.pc # "done"
    /\ \E o \in PairOutcomes :
         \E n \in {EscalationStep(calls[i].kind, shared.apiKey,
                                  calls[i].m, o)} :
             /\ calls' = [calls EXCEPT
                    ![i].m = n,
                    ![i].outs = IF n.calls > calls[i].m.calls
                                THEN Append(@, o) ELSE @]
             /\ shared' = ClientAfter(shared, n)

\* the escalation is over: its error is returned, or GenerateReply reads the
\* answer, or StreamReply makes its parser
PairOpen(i) ==
    /\ calls[i].pc = "escalating"
    /\ calls[i].m.pc = "done"
    /\ calls' = [calls EXCEPT ![i] =
           IF calls[i].m.err # NoError
           THEN [@ EXCEPT !.pc = "returned",
                          !.result = [err |-> ErrorText(calls[i].m.err),
                                      reply |-> NoReply]]
           ELSE IF calls[i].kind = "gen"
           THEN [@ EXCEPT !.pc = "returned",
                          !.result = ReplyOf(1, Concat(calls[i].frames),
                                             <<>>, shared.emotions)]
           ELSE [@ EXCEPT !.pc = "reading", !.p = newJSONStreamParser]]
    /\ UNCHANGED shared

\* the next frame of the stream of the call
PairFrame(i) ==
    /\ calls[i].pc = "reading"
    /\ calls[i].fed < Len(calls[i].frames)
    /\ \E f \in {Feed(calls[i].p, calls[i].frames[calls[i].fed + 1])} :
           calls' = [calls EXCEPT ![i].p = f.p,
                                  ![i].replies = @ \o f.replies,
                                  ![i].fired = @ \o f.fired,
                                  ![i].fed = @ + 1]
    /\ UNCHANGED shared

\* the end of the stream of the call
PairEnd(i) ==
    /\ calls[i].pc = "reading"
    /\ calls[i].fed = Len(calls[i].frames)
    /\ \E f \in {streamFinish(calls[i].p, Concat(calls[i].frames), <<>>,
                              shared.emotions)} :
           calls' = [calls EXCEPT ![i].p = f.p,
                                  ![i].fired = @ \o f.fired,
                                  ![i].result = f.result,
                                  ![i].pc = "returned"]
    /\ UNCHANGED shared

----------------------------------------------------------------------------
(* Specifications *)


\* the negotiator at rest, while a stream is read
NegIdle ==
    /\ apiKey = "sk"
    /\ script = <<>>
    /\ gen = NewCall(0, "done")
    /\ str = NewCall(0, "done")

\* no stream, while the negotiator runs
StreamIdle ==
    /\ payload = <<>>
    /\ emotions = <<>>
    /\ pos = 0
    /\ parser = newJSONStreamParser
    /\ delivered = <<>>
    /\ emotionCalls = <<>>
    /\ cutInEscape = FALSE
    /\ streamPc = "returned"
    /\ streamResult = [err |-> "", reply |-> NoReply]
    /\ refusal = <<>>
    /\ badFrames = 0
    /\ callbackFails = "none"
    /\ wire = NoWire

\* no call of the chat handler
CallIdle ==
    /\ genPc = "returned"
    /\ genResult = [err |-> "", reply |-> NoReply]
    /\ choices = 0
    /\ chat = NoChat

----------------------------------------------------------------------------
(* HandleSendMessage: the requests that post a message, and the tables.   *)
(* Each statement sent to the database is one step; last_seen and the     *)
(* other columns of a visitor are left out.                               *)

Posters == 1..MaxPosts

\* AI_MAX_HISTORY as configured, and the limit where none is configured
AIMaxHistory == 2
DefaultHistory == 20

\* a field of the request left empty (and uuid.Nil), and one that uuid.Parse
\* returns an error for
Blank == 0
Malformed == -1
\* the uuid of the visitor and of the thread the tables hold from the start,
\* and a uuid no row has
KnownVisitor == 1
KnownThread == 2
Unknown == 9

\* uuid.New() in the request p: for its visitor (k = 1), its thread (2), its
\* user message (3), its assistant message (4)
NewUUID(p, k) == 10 * k + p

maxHistoryLimit ==
    IF AIMaxHistory <= 0 THEN DefaultHistory ELSE AIMaxHistory

\* the message field of a request
MessageFields == {<<>>, Str(<<" ">>), Str(<<"h", "i", " ">>)}
ThreadInputs == {Blank, Malformed, KnownThread, Unknown}
VisitorInputs == {Blank, Malformed, KnownVisitor, Unknown}

reverseMessages(ms) == [i \in 1..Len(ms) |-> ms[Len(ms) + 1 - i]]

\* ORDER BY created_at DESC
RECURSIVE LatestFirst(_)
LatestFirst(rows) ==
    IF rows = <<>> THEN <<>>
    ELSE LatestFirst(Tail(rows)) \o <<Head(rows)>>

\* GetChatMessagesByThreadLimit: the rows of the thread, the latest first,
\* no more than limit
GetChatMessagesByThreadLimit(rows, t, limit) ==
    LET ofThread == LatestFirst(SelectSeq(rows, LAMBDA m : m.thread = t))
    IN SubSeq(ofThread, 1, IF Len(ofThread) < limit THEN Len(ofThread)
                           ELSE limit)

\* a request that has not arrived
NoPost ==
    [pc |-> "idle", thread_id |-> Blank, visitor_id |-> Blank,
     message |-> <<>>, threadUUID |-> Blank, visitorUUID |-> Blank,
     history |-> <<>>, ai |-> 0, status |-> ""]

\* the rows the known thread holds before the requests
Earlier(n) ==
    [i \in 1..n |->
        [uuid |-> i, thread |-> KnownThread,
         role |-> IF i % 2 = 1 THEN "user" ELSE "assistant",
         content |-> Str(<<"y", "o">>)]]

\* no request posts a message
PostIdle ==
    /\ visitors = {KnownVisitor}
    /\ threads = {[uuid |-> KnownThread, visitor |-> KnownVisitor]}
    /\ stored = <<>>
    /\ posts = [p \in Posters |-> NoPost]

PostStart ==
    /\ visitors = {KnownVisitor}
    /\ threads = {[uuid |-> KnownThread, visitor |-> KnownVisitor]}
    /\ stored = Earlier(MaxStored)
    /\ posts = [p \in Posters |-> NoPost]

\* the request p answered with the status st: its locals are gone
Answered(p, st) ==
    [NoPost EXCEPT !.pc = "done", !.status = st, !.ai = posts[p].ai]

\* HandleSendMessage, lines 65-75: the body is bound and the message trimmed
Bind(p) ==
    /\ posts[p].pc = "idle"
    /\ \E t \in ThreadInputs, b \in MessageFields :
         \E v \in IF t = Blank THEN VisitorInputs ELSE {Blank, Malformed} :
             posts' = [posts EXCEPT ![p] =
                 IF b = <<>> \/ TrimSpace(b) = <<>>
                 THEN Answered(p, "400")
                 ELSE [posts[p] EXCEPT !.pc = "prepare",
                                       !.thread_id = t,
                                       !.visitor_id = v,
                                       !.message = TrimSpace(b)]]
    /\ UNCHANGED <<visitors, threads, stored>>

\* resolveVisitor, had it created the visitor before it looked at visitor_id
resolveVisitorCreatesFirst(p) ==
    /\ posts[p].pc = "prepare"
    /\ posts[p].thread_id = Blank
    /\ \E fails \in BOOLEAN :
         /\ visitors' = IF fails THEN visitors
                        ELSE visitors \cup {NewUUID(p, 1)}
         /\ posts' = [posts EXCEPT ![p] =
                IF fails THEN Answered(p, "500")
                ELSE IF posts[p].visitor_id = Blank
                THEN [posts[p] EXCEPT !.pc = "thread",
                                      !.visitorUUID = NewUUID(p, 1)]
                ELSE IF posts[p].visitor_id = Malformed
                THEN Answered(p, "400")
                ELSE IF posts[p].visitor_id \notin visitors
                THEN Answered(p, "404")
                ELSE [posts[p] EXCEPT !.pc = "thread",
                                      !.visitorUUID = posts[p].visitor_id]]
    /\ UNCHANGED <<threads, stored>>

\* prepareChat without a thread_id, lines 266-280, and resolveVisitor: the
\* visitor named is looked up (UpdateVisitorLastSeen), or one is created
resolveVisitor(p) ==
    /\ posts[p].pc = "prepare"
    /\ posts[p].thread_id = Blank
    /\ \E fails \in BOOLEAN :
         IF posts[p].visitor_id # Blank
         THEN /\ visitors' = visitors
              /\ posts' = [posts EXCEPT ![p] =
                     IF posts[p].visitor_id = Malformed
                     THEN Answered(p, "400")
                     ELSE IF fails THEN Answered(p, "500")
                     ELSE IF posts[p].visitor_id \notin visitors
                     THEN Answered(p, "404")
                     ELSE [posts[p] EXCEPT
                              !.pc = "thread",
                              !.visitorUUID = posts[p].visitor_id]]
         ELSE /\ visitors' = IF fails THEN visitors
                             ELSE visitors \cup {NewUUID(p, 1)}
              /\ posts' = [posts EXCEPT ![p] =
                     IF fails THEN Answered(p, "500")
                     ELSE [posts[p] EXCEPT !.pc = "thread",
                                           !.visitorUUID = NewUUID(p, 1)]]
    /\ UNCHANGED <<threads, stored>>

\* prepareChat, lines 281-289: the thread of the request is created
CreateChatThread(p) ==
    /\ posts[p].pc = "thread"
    /\ \E fails \in BOOLEAN :
         /\ threads' = IF fails THEN threads
                       ELSE threads \cup {[uuid |-> NewUUID(p, 2),
                                           visitor |-> posts[p].visitorUUID]}
         /\ posts' = [posts EXCEPT ![p] =
                IF fails THEN Answered(p, "500")
                ELSE [posts[p] EXCEPT !.pc = "store",
                                      !.threadUUID = NewUUID(p, 2)]]
    /\ UNCHANGED <<visitors, stored>>

\* prepareChat with a thread_id, lines 290-305: any error of GetChatThread is
\* answered 404; the visitor of the thread is touched
GetChatThread(p) ==
    /\ posts[p].pc = "prepare"
    /\ posts[p].thread_id # Blank
    /\ \E fails \in BOOLEAN :
         posts' = [posts EXCEPT ![p] =
             IF posts[p].thread_id = Malformed THEN Answered(p, "400")
             ELSE IF fails \/ \A t \in threads : t.uuid # posts[p].thread_id
             THEN Answered(p, "404")
             ELSE [posts[p] EXCEPT
                      !.pc = "store",
                      !.visitor_id = Blank,
                      !.threadUUID = posts[p].thread_id,
                      !.visitorUUID =
                          (CHOOSE t \in threads :
                               t.uuid = posts[p].thread_id).visitor]]
    /\ UNCHANGED <<visitors, threads, stored>>

\* prepareChat, lines 308-318: the user message is stored
CreateUserMessage(p) ==
    /\ posts[p].pc = "store"
    /\ \E fails \in BOOLEAN :
         /\ stored' = IF fails THEN stored
                      ELSE Append(stored, [uuid |-> NewUUID(p, 3),
                                           thread |-> posts[p].threadUUID,
                                           role |-> "user",
                                           content |-> posts[p].message])
         /\ posts' = [posts EXCEPT ![p] =
                IF fails THEN Answered(p, "500")
                ELSE [posts[p] EXCEPT !.pc = "history"]]
    /\ UNCHANGED <<visitors, threads>>

\* prepareChat, lines 320-329: the history is read and put in order
LoadHistory(p) ==
    /\ posts[p].pc = "history"
    /\ \E fails \in BOOLEAN :
         posts' = [posts EXCEPT ![p] =
             IF fails THEN Answered(p, "500")
             ELSE [posts[p] EXCEPT
                      !.pc = "ai",
                      !.history = reverseMessages(
                          GetChatMessagesByThreadLimit(
                              stored, posts[p].threadUUID, maxHistoryLimit))]]
    /\ UNCHANGED <<visitors, threads, stored>>

\* HandleSendMessage, lines 77-92, and streamChat to the return of StreamReply:
\* the history goes to the AI client, which returns a Reply or an error; a
\* streamed answer has its status line by then
CallClient(p) ==
    /\ posts[p].pc = "ai"
    /\ \E streamed \in BOOLEAN, ok \in BOOLEAN :
         posts' = [posts EXCEPT ![p] =
             IF ok
             THEN [posts[p] EXCEPT !.pc = "assistant", !.ai = @ + 1]
             ELSE [NoPost EXCEPT !.pc = "done", !.ai = posts[p].ai + 1,
                                 !.status = IF streamed THEN "200"
                                            ELSE "502"]]
    /\ UNCHANGED <<visitors, threads, stored>>

\* HandleSendMessage, lines 94-117, and the end of streamChat: the assistant
\* message is stored and the request answered
CreateAssistantMessage(p) ==
    /\ posts[p].pc = "assistant"
    /\ \E streamed \in BOOLEAN, fails \in BOOLEAN :
         /\ stored' = IF fails THEN stored
                      ELSE Append(stored, [uuid |-> NewUUID(p, 4),
                                           thread |-> posts[p].threadUUID,
                                           role |-> "assistant",
                                           content |-> Str(<<"y", "o">>)])
         /\ posts' = [posts EXCEPT ![p] =
                Answered(p, IF fails /\ ~streamed THEN "500" ELSE "200")]
    /\ UNCHANGED <<visitors, threads>>

----------------------------------------------------------------------------
(* Server.Run, its listener and the requests to /ready. The handlers of   *)
(* the engine are called by RunListener alone, for connections its        *)
(* listener accepted.                                                     *)

Getters == 1..MaxGets

\* a request to /ready nobody made yet
NoGet == [state |-> "none", bound |-> FALSE, answer |-> ""]

\* Server.Run was not called
ServeIdle ==
    /\ ready = FALSE
    /\ run = "start"
    /\ gets = [r \in Getters |-> NoGet]

\* Run, lines 77-81: makeRoutes and net.Listen, which may fail
Listen ==
    /\ run = "start"
    /\ \E ok \in BOOLEAN : run' = IF ok THEN "bound" ELSE "failed"
    /\ UNCHANGED <<ready, gets>>

\* Run, had it left the flag alone
StoreReadyNever ==
    /\ run = "bound"
    /\ run' = "stored"
    /\ UNCHANGED <<ready, gets>>

\* Run, line 83: s.ready.Store(true)
StoreReady ==
    /\ run = "bound"
    /\ ready' = TRUE
    /\ run' = "stored"
    /\ UNCHANGED gets

\* Run, line 90: eng.RunListener(listener) begins to accept
RunListener ==
    /\ run = "stored"
    /\ run' = "serving"
    /\ UNCHANGED <<ready, gets>>

\* Run, lines 85-88: the context is done and the listener closed; what was
\* not accepted is dropped
CloseListener ==
    /\ run \in {"stored", "serving"}
    /\ run' = "closed"
    /\ gets' = [r \in Getters |->
                   IF gets[r].state = "queued"
                   THEN [gets[r] EXCEPT !.state = "refused"]
                   ELSE gets[r]]
    /\ UNCHANGED ready

\* a client connects for GET /ready: the connection waits to be accepted
\* where a listener is bound and is refused where none is
Connect(r) ==
    /\ gets[r].state = "none"
    /\ gets' = [gets EXCEPT ![r] =
           IF run \in {"bound", "stored", "serving"}
           THEN [state |-> "queued", bound |-> TRUE, answer |-> ""]
           ELSE [state |-> "refused", bound |-> run = "closed",
                 answer |-> ""]]
    /\ UNCHANGED <<ready, run>>

\* the handler of /ready, for a connection RunListener accepted
HandleReady(r) ==
    /\ run = "serving"
    /\ gets[r].state = "queued"
    /\ gets' = [gets EXCEPT ![r] =
           [@ EXCEPT !.state = "answered",
                     !.answer = IF ready THEN "200 ready"
                                ELSE "503 not_ready"]]
    /\ UNCHANGED <<ready, run>>

\* nothing happens outside the client and the chat handler
RestIdle ==
    /\ FeedIdle
    /\ LimStart
    /\ PairIdle
    /\ PostIdle
    /\ ServeIdle

\* no call is made on the client
ClientIdle ==
    /\ StreamIdle
    /\ NegIdle
    /\ CallIdle

FeedInit ==
    /\ FeedStart
    /\ ClientIdle
    /\ LimStart
    /\ PairIdle
    /\ PostIdle
    /\ ServeIdle

FeedNext ==
    FeedCall /\ UNCHANGED <<streamVars, negVars, callVars, limVars, pairVars,
                           postVars, srvVars>>

SpecFeed == FeedInit /\ [][FeedNext]_vars

LimInit ==
    /\ LimStart
    /\ ClientIdle
    /\ FeedIdle
    /\ PairIdle
    /\ PostIdle
    /\ ServeIdle

LimNext ==
    \/ /\ \E p \in Requests :
              \/ Lock(p)
              \/ Lookup(p)
              \/ Create(p)
              \/ Decide(p)
       /\ UNCHANGED <<streamVars, negVars, callVars, feedVars, pairVars,
                    postVars, srvVars>>
    \/ Tick /\ UNCHANGED <<streamVars, negVars, callVars, feedVars, pairVars,
                    postVars, srvVars>>

SpecLimit == LimInit /\ [][LimNext]_vars

PairInit ==
    /\ PairStart
    /\ ClientIdle
    /\ FeedIdle
    /\ LimStart
    /\ PostIdle
    /\ ServeIdle

PairNext ==
    /\ \E i \in {1, 2} :
          \/ PairBuild(i)
          \/ PairAttempt(i)
          \/ PairOpen(i)
          \/ PairFrame(i)
          \/ PairEnd(i)
    /\ UNCHANGED <<streamVars, negVars, callVars, feedVars, limVars,
                   postVars, srvVars>>

SpecPair == PairInit /\ [][PairNext]_vars

PostInit ==
    /\ PostStart
    /\ ClientIdle
    /\ FeedIdle
    /\ LimStart
    /\ PairIdle
    /\ ServeIdle

PostNext ==
    /\ \E p \in Posters :
          \/ Bind(p)
          \/ resolveVisitor(p)
          \/ CreateChatThread(p)
          \/ GetChatThread(p)
          \/ CreateUserMessage(p)
          \/ LoadHistory(p)
          \/ CallClient(p)
          \/ CreateAssistantMessage(p)
    /\ UNCHANGED <<streamVars, negVars, callVars, feedVars, limVars,
                   pairVars, srvVars>>

SpecPost == PostInit /\ [][PostNext]_vars

ServeInit ==
    /\ ServeIdle
    /\ ClientIdle
    /\ FeedIdle
    /\ LimStart
    /\ PairIdle
    /\ PostIdle

ServeNext ==
    /\ \/ Listen
       \/ StoreReady
       \/ RunListener
       \/ CloseListener
       \/ \E r \in Getters : Connect(r)
       \/ \E r \in Getters : HandleReady(r)
    /\ UNCHANGED <<streamVars, negVars, callVars, feedVars, limVars,
                   pairVars, postVars>>

SpecServe == ServeInit /\ [][ServeNext]_vars

NegInit ==
    /\ apiKey \in {"", "sk"}
    /\ script = <<>>
    /\ \E t \in Temperatures :
         /\ gen = NewCall(t, "L127")
         /\ str = NewCall(t, "L337")
    /\ StreamIdle
    /\ CallIdle
    /\ RestIdle

NegNext ==
    \/ (GenerateReplyFirst /\ UNCHANGED <<streamVars, callVars, restVars>>)
    \/ (GenerateReplyRetryTemp /\ UNCHANGED <<streamVars, callVars, restVars>>)
    \/ (GenerateReplyFallbackJSON /\ UNCHANGED <<streamVars, callVars, restVars>>)
    \/ (GenerateReplyRetryTempAgain /\ UNCHANGED <<streamVars, callVars, restVars>>)
    \/ (GenerateReplyReturn /\ UNCHANGED <<streamVars, callVars, restVars>>)
    \/ (StreamRequestFirst /\ UNCHANGED <<streamVars, callVars, restVars>>)
    \/ (StreamRequestRetryTemp /\ UNCHANGED <<streamVars, callVars, restVars>>)
    \/ (StreamRequestFallbackJSON /\ UNCHANGED <<streamVars, callVars, restVars>>)
    \/ (StreamRequestRetryTempAgain /\ UNCHANGED <<streamVars, callVars, restVars>>)
    \/ (StreamRequestReturn /\ UNCHANGED <<streamVars, callVars, restVars>>)

SpecNeg == NegInit /\ [][NegNext]_vars

\* every step of a call is taken: the code is straight-line and each HTTP
\* exchange ends within the client's timeout
FairSpecNeg == SpecNeg /\ WF_vars(NegNext)

StreamNext ==
    \/ (StreamFeed /\ UNCHANGED <<negVars, callVars, restVars>>)
    \/ (StreamEnd /\ UNCHANGED <<negVars, callVars, restVars>>)

StreamInit ==
    /\ StreamStart
    /\ NegIdle
    /\ CallIdle
    /\ RestIdle

SpecStream == StreamInit /\ [][StreamNext]_vars

\* the escalations and what each call does when its escalation is over
OpenInit ==
    /\ apiKey \in {"", "sk"}
    /\ script = <<>>
    /\ \E t \in Temperatures :
         /\ gen = NewCall(t, "L127")
         /\ str = NewCall(t, "L337")
    /\ payload = <<>>
    /\ emotions = <<>>
    /\ pos = 0
    /\ parser = newJSONStreamParser
    /\ delivered = <<>>
    /\ emotionCalls = <<>>
    /\ cutInEscape = FALSE
    /\ streamPc = "opening"
    /\ streamResult = [err |-> "", reply |-> NoReply]
    /\ refusal = <<>>
    /\ badFrames = 0
    /\ callbackFails = "none"
    /\ wire = NoWire
    /\ genPc = "calling"
    /\ genResult = [err |-> "", reply |-> NoReply]
    /\ choices \in {0, 1}
    /\ chat = NoChat
    /\ RestIdle

OpenNext ==
    \/ NegNext
    \/ GenerateReplyFinish
    \/ StreamReplyOpen

SpecOpen == OpenInit /\ [][OpenNext]_vars

\* the escalation of GenerateReply that ends with its first exchange
GenFirstExchange(key, t, o) ==
    GenReturn(GenRetryTempAgain(key,
        GenFallbackJSON(key,
            GenRetryTemp(key, GenFirst(key, NewCall(t, "L127"), o), o), o), o))

\* the escalation of doChatStreamRequestWithFallback that ends with its
\* first exchange
StreamFirstExchange(key, t, o) ==
    StreamReturn(StreamRetryTempAgain(key,
        StreamFallbackJSON(key,
            StreamRetryTemp(key, StreamFirst(key, NewCall(t, "L337"), o), o),
            o), o))

\* one request of the chat handler, buffered or streamed, when the first
\* exchange with the provider has ended the escalation
CallInit ==
    /\ apiKey = "sk"
    /\ payload \in CallPayloads
    /\ emotions \in CallEmotionLists
    /\ pos = 0
    /\ parser = newJSONStreamParser
    /\ delivered = <<>>
    /\ emotionCalls = <<>>
    /\ cutInEscape = FALSE
    /\ badFrames = 0
    /\ wire = NoWire
    /\ streamResult = [err |-> "", reply |-> NoReply]
    /\ genResult = [err |-> "", reply |-> NoReply]
    /\ RestIdle
    /\ \E t \in Temperatures, o \in {NoError, NetError} :
         /\ script = <<o>>
         /\ \/ /\ gen = GenFirstExchange(apiKey, t, o)
               /\ str = NewCall(0, "done")
               /\ genPc = "calling"
               /\ streamPc = "returned"
               /\ choices \in {0, 1}
               /\ refusal \in {<<>>} \cup RefusalTexts
               /\ callbackFails = "none"
               /\ chat = NoChat
            \/ /\ gen = NewCall(0, "done")
               /\ str = StreamFirstExchange(apiKey, t, o)
               /\ genPc = "returned"
               /\ streamPc = "opening"
               /\ choices = 0
               /\ refusal = <<>>
               /\ callbackFails \in {"none", "chunk", "emotion"}
               /\ chat = [NoChat EXCEPT !.pc = "meta"]

CallNext ==
    \/ GenerateReplyFinish
    \/ StreamChatMeta
    \/ StreamChatCall
    \/ StreamChatToken
    \/ (StreamRefusal /\ UNCHANGED <<negVars, callVars, restVars>>)
    \/ (StreamSkipFrame /\ UNCHANGED <<negVars, callVars, restVars>>)
    \/ (StreamOtherLine /\ UNCHANGED <<negVars, callVars, restVars>>)
    \/ (StreamReadError /\ UNCHANGED <<negVars, callVars, restVars>>)
    \/ (StreamEnd /\ UNCHANGED <<negVars, callVars, restVars>>)
    \/ (StreamLateFrame /\ UNCHANGED <<negVars, callVars, restVars>>)
    \/ StreamChatFinish

SpecCall == CallInit /\ [][CallNext]_vars

----------------------------------------------------------------------------
(* Properties of the incremental field extractor (SpecStream) *)

\* the members of the payload named exactly "reply", as encoding/json reads them
ReplyMembers ==
    LET o == JSONObject(payload) IN
    {i \in 1..Len(o.members) : o.members[i].key = KeyReply}

\* the decoded value of the reply field of the payload
DecodedReply ==
    LET o == JSONObject(payload) IN
    o.members[CHOOSE i \in ReplyMembers : TRUE].val

\* every content delta of the payload was fed and Feed has returned
AllFed == pos = Len(payload)

\* C1: during one StreamReply call the onEmotion callback is invoked at most
\* once, whatever the payload and its chunking, the raw-JSON fallback of the
\* end of the stream included.
C1_EmotionAtMostOnce == Len(emotionCalls) <= 1

\* C2: the value the parser holds and delivers to onEmotion is the first
\* emotion value that was closed; no later emotion value overwrites it.
C2_FirstEmotionKept ==
    emotionCalls # <<>> => parser.emotion = emotionCalls[1]

\* C3: once the last Feed has returned, the concatenation of the onReply
\* arguments is the decoded value of the reply field of the object, escapes
\* resolved to the characters they denote.
C3_ReplyDecoded ==
    (AllFed /\ Cardinality(ReplyMembers) = 1) => delivered = DecodedReply

\* C4: feeding a text in chunks and feeding it in one Feed call give the same
\* concatenation of onReply arguments, the same Reply() and the same
\* Emotion(); stated for every prefix of every payload.
C4_ChunkIndependence ==
    streamPc = "reading" =>
        LET one == Feed(newJSONStreamParser, Raw) IN
        /\ delivered = Concat(one.replies)
        /\ parser.replyBuilder = one.p.replyBuilder
        /\ parser.emotion = one.p.emotion

C4_Witness ==
    /\ streamPc = "reading"
    /\ AllFed
    /\ cutInEscape
    /\ delivered # <<>>
    /\ parser.emotion # <<>>

\* the payloads whose only reply member is written as the escape é
UEscapePayloads ==
    {ObjectText(ms) : ms \in
        {l \in MemberLists :
            /\ \E i \in 1..Len(l) : l[i] = Member(<<"r", "e", "p", "l", "y">>,
                                                 UEscapeSrc)
            /\ \A i, j \in 1..Len(l) :
                   (l[i].key = KeyReply /\ l[j].key = KeyReply) => i = j}}

\* the number of source characters of the escape already fed
EscapeFed == pos - Index(payload, BACKSLASH) + 1

\* C5: the six source characters of é in the reply are delivered as the
\* one character U+00E9 wherever they are split across Feed calls, and the
\* pending escape and the pending hex digits survive the end of a Feed call.
C5_UnicodeEscapeSplit ==
    (streamPc = "reading" /\ payload \in UEscapePayloads) =>
        /\ AllFed => delivered = <<233>>
        /\ EscapeFed = 1 => parser.escape
        /\ EscapeFed \in 2..5 =>
               (~parser.escape /\ parser.unicodeLeft = 6 - EscapeFed
                    /\ Len(parser.unicodeBuf) = EscapeFed - 2)

C5_Witness ==
    /\ payload \in UEscapePayloads
    /\ AllFed
    /\ cutInEscape
    /\ delivered = <<233>>

----------------------------------------------------------------------------
(* Properties of the fallback negotiator (SpecNeg, FairSpecNeg) *)

BothCalls == {gen, str}

\* the markers of a response body, as the claims name them
TemperatureMarked(body) ==
    /\ "temperature" \in LowerBody(body)
    /\ LowerBody(body) \cap {"unsupported", "unsupported_value"} # {}

FormatMarked(body) ==
    LowerBody(body) \cap {"response_format", "json_schema",
                          "structured outputs", "not supported"} # {}

\* a failure the negotiator answers with an escalation step
Recognized(o) ==
    /\ o.kind = "api"
    /\ o.status = 400
    /\ (TemperatureMarked(o.body) \/ FormatMarked(o.body))

\* a temperature-unsupported failure and nothing else
TemperatureOnly(o) ==
    /\ o.kind = "api"
    /\ o.status = 400
    /\ TemperatureMarked(o.body)
    /\ ~FormatMarked(o.body)

\* C6: one logical call issues at most 3 HTTP attempts, forces the
\* temperature to zero at most once, downgrades the response format at most
\* once, and always comes to an end.
C6_BoundedEscalation ==
    /\ [](\A m \in BothCalls :
             Len(m.attempts) <= 3 /\ m.forced <= 1 /\ m.downgraded <= 1)
    /\ <>(gen.pc = "done" /\ str.pc = "done")

C6_Witness ==
    /\ gen.pc = "done"
    /\ Len(gen.attempts) = 3
    /\ gen.forced = 1
    /\ gen.downgraded = 1

\* C7: if every HTTP attempt fails with a temperature-unsupported error, the
\* call issues at most 2 attempts, the original and one with the temperature
\* forced to zero, and returns the error.
C7_TemperatureOnlyBound ==
    \A m \in BothCalls :
        (/\ m.pc = "done"
         /\ m.attempts # <<>>
         /\ \A i \in 1..Len(m.attempts) : TemperatureOnly(script[i]))
        => /\ Len(m.attempts) <= 2
           /\ Len(m.attempts) = 2 =>
                  m.attempts[2] = [m.attempts[1] EXCEPT !.Temperature = 0]
           /\ m.err = script[Len(m.attempts)]

C7_Witness ==
    /\ gen.pc = "done"
    /\ Len(gen.attempts) = 2
    /\ gen.attempts[1].Temperature # 0
    /\ \A i \in 1..2 : TemperatureOnly(script[i])

\* how far a response format is from the schema the call starts with
FormatRank(f) ==
    IF f = "json_schema" THEN 0 ELSE IF f = "json_object" THEN 1 ELSE 2

\* C8: within one call the response format of successive attempts only moves
\* from JSONSchema to JSONObjectMode to None, never back to a stricter one.
C8_FormatNeverStricter ==
    \A m \in BothCalls :
        \A i, j \in 1..Len(m.attempts) :
            i < j => FormatRank(m.attempts[i].ResponseFormat)
                         <= FormatRank(m.attempts[j].ResponseFormat)

C8_Witness ==
    /\ gen.pc = "done"
    /\ Len(gen.attempts) = 3
    /\ gen.attempts[1].ResponseFormat = "json_schema"
    /\ gen.attempts[2].ResponseFormat = "json_object"
    /\ gen.attempts[3].ResponseFormat = "json_object"

\* C9: an attempt that fails with anything but a recognized marker error is
\* the last attempt and its error is what the call returns; a call that
\* returns an error returns the error of the last attempt it issued.
C9_ErrorsPropagate ==
    \A m \in BothCalls :
        (m.pc = "done" /\ m.attempts # <<>>) =>
            /\ \A i \in 1..Len(m.attempts) :
                   (script[i] # NoError /\ ~Recognized(script[i]))
                       => (i = Len(m.attempts) /\ m.err = script[i])
            /\ m.err = script[Len(m.attempts)]

C9_Witness ==
    /\ str.pc = "done"
    /\ Len(str.attempts) = 2
    /\ str.err.kind = "api"
    /\ str.err.status = 500
    /\ FormatMarked(str.err.body)

\* C10: for the same request and the same transport outcomes the buffered
\* and the streaming escalation issue the same attempts and end alike.
C10_SameMachine ==
    (gen.pc = "done" /\ str.pc = "done") =>
        /\ gen.attempts = str.attempts
        /\ gen.err = str.err
        /\ gen.calls = str.calls

C10_Witness ==
    /\ gen.pc = "done"
    /\ str.pc = "done"
    /\ Len(gen.attempts) = 3
    /\ Len(str.attempts) = 3
    /\ gen.err # NoError

----------------------------------------------------------------------------
(* Properties of the calls (SpecOpen, SpecCall) *)

\* GenerateReply, StreamReply was called and has returned
GenReturned == genPc = "returned" /\ gen.calls > 0
StreamReturned == streamPc = "returned" /\ str.calls > 0

\* C11: with an empty API key GenerateReply and StreamReply return the
\* missing-credentials error, which is no apiError; no HTTP request is issued
\* and the escalation retries nothing.
C11_MissingKeyFailsFast ==
    apiKey = "" =>
        /\ \A m \in BothCalls :
               /\ m.attempts = <<>>
               /\ m.calls <= 1
               /\ m.forced = 0
               /\ m.downgraded = 0
               /\ m.calls = 1 => (m.err = MissingKey /\ ~IsApiError(m.err))
        /\ GenReturned =>
               genResult = [err |-> "missing OPENAI_API_KEY", reply |-> NoReply]
        /\ StreamReturned =>
               streamResult = [err |-> "missing OPENAI_API_KEY",
                               reply |-> NoReply]
        /\ (gen.pc = "done" /\ genPc = "calling") => gen.err = MissingKey
        /\ streamPc # "reading"

C11_Witness ==
    /\ apiKey = ""
    /\ GenReturned
    /\ StreamReturned
    /\ genResult.err = "missing OPENAI_API_KEY"
    /\ streamResult.err = "missing OPENAI_API_KEY"

\* the emotion e is one a result may carry under the allowed list
GoodEmotion(e, allowed) ==
    /\ e # <<>>
    /\ ToLower(e) = e
    /\ \/ \E i \in 1..Len(allowed) : e = ToLower(TrimSpace(allowed[i]))
       \/ /\ \A i \in 1..Len(allowed) : TrimSpace(allowed[i]) = <<>>
          /\ e = Neutral

\* C12: the Emotion of a successful result of GenerateReply and of StreamReply
\* is non-empty, lower-cased, and either a member of the allowed list (case
\* and surrounding space ignored) or "neutral" when the list has no non-blank
\* member.
C12_EmotionNormalized ==
    /\ (GenReturned /\ genResult.err = "") =>
           GoodEmotion(genResult.reply.Emotion, emotions)
    /\ (StreamReturned /\ streamResult.err = "") =>
           GoodEmotion(streamResult.reply.Emotion, emotions)

C12_Witness ==
    /\ StreamReturned
    /\ streamResult.err = ""
    /\ parser.emotion = Str(<<"S", "a", "d">>)
    /\ streamResult.reply.Emotion = Str(<<"s", "a", "d">>)
    /\ Len(emotions) = 3

\* a result is an error with the zero Reply, or no error with a Reply
OneOrNone(r) == IF r.err = "" THEN r.reply # NoReply ELSE r.reply = NoReply

\* C13: every return of GenerateReply and of StreamReply carries either no
\* error and a Reply, or an error and the zero Reply; a call returns once:
\* nothing is returned before, and what was returned stays.
C13_OneReplyOrError ==
    /\ [](/\ GenReturned => OneOrNone(genResult)
          /\ StreamReturned => OneOrNone(streamResult)
          /\ genPc = "calling" => genResult = [err |-> "", reply |-> NoReply]
          /\ streamPc \in {"opening", "reading"} =>
                 streamResult = [err |-> "", reply |-> NoReply])
    /\ [][genPc = "returned" =>
              (genPc' = "returned" /\ genResult' = genResult)]_vars
    /\ [][streamPc = "returned" =>
              (streamPc' = "returned" /\ streamResult' = streamResult)]_vars

C13_Witness ==
    /\ StreamReturned
    /\ streamResult.err = "read"
    /\ parser.replyBuilder # <<>>
    /\ chat.pc = "done"

\* the stream was read to its [DONE] frame and no callback failed
StreamEnded ==
    /\ StreamReturned
    /\ str.err = NoError
    /\ streamResult.err \notin {"read", "callback"}

\* C14: the content fragments {"emotion":"happ / y","reply":"He / llo!"}
\* followed by [DONE], with happy allowed: onReply receives strings that
\* concatenate to Hello!, onEmotion is invoked once, with happy, and StreamReply
\* returns {Text: "Hello!", Emotion: "happy"}.
C14_HappyStream ==
    (/\ StreamEnded
     /\ payload = HappyPayload
     /\ emotions = <<Str(<<"h", "a", "p", "p", "y">>)>>
     /\ callbackFails = "none") =>
        /\ delivered = Str(<<"H", "e", "l", "l", "o", "!">>)
        /\ emotionCalls = <<Str(<<"h", "a", "p", "p", "y">>)>>
        /\ streamResult =
               [err |-> "",
                reply |-> [Text |-> Str(<<"H", "e", "l", "l", "o", "!">>),
                           Emotion |-> Str(<<"h", "a", "p", "p", "y">>)]]

C14_Witness ==
    /\ StreamEnded
    /\ payload = HappyPayload
    /\ Len(HappyFragments) = 3
    /\ emotions = <<Str(<<"h", "a", "p", "p", "y">>)>>
    /\ callbackFails = "none"
    /\ Len(delivered) = 6
    /\ chat.pc = "done"

\* GenerateReply got an answer with a choice and non-blank content
GenAnswered ==
    /\ GenReturned
    /\ gen.err = NoError
    /\ choices > 0
    /\ TrimSpace(payload) # <<>>

StreamEnds ==
    /\ streamPc = "reading"
    /\ streamPc' = "returned"
    /\ streamResult'.err \notin {"read", "callback"}

\* the emotion of a result, from the raw emotion e
EmotionOr(e, allowed) ==
    IF normalizeEmotion(e, allowed) = <<>> THEN fallbackEmotion(allowed)
    ELSE normalizeEmotion(e, allowed)

\* C16: streaming mode: when the extractor captured no reply text by the end
\* of the stream, StreamReply parses the whole content as standalone JSON and
\* returns its reply, with its emotion if the extractor captured none; the call
\* fails with the empty-reply (or refusal) error only if that parse gives no
\* reply text either.
C16_ReparseAtEnd ==
    [][(StreamEnds /\ TrimSpace(parser.replyBuilder) = <<>>) =>
          \A re \in {parseAIJSON(TrimSpace(payload))} :
              IF TrimSpace(payload) # <<>> /\ re.ok /\ TrimSpace(re.Reply) # <<>>
              THEN streamResult' =
                       [err |-> "",
                        reply |-> [Text |-> TrimSpace(re.Reply),
                                   Emotion |->
                                       EmotionOr(IF parser.emotion = <<>>
                                                 THEN re.Emotion
                                                 ELSE parser.emotion,
                                                 emotions)]]
              ELSE /\ streamResult'.reply = NoReply
                   /\ streamResult'.err \in
                          {"openai api returned empty content",
                           "openai api refused to answer"}]_vars

C16_Witness ==
    /\ StreamEnded
    /\ parser.replyBuilder = <<>>
    /\ parser.emotion = Str(<<"h", "i">>)
    /\ streamResult.reply = [Text |-> Str(<<"y", "o">>),
                             Emotion |-> Str(<<"h", "i">>)]

\* C17: when the extractor never captured the emotion, StreamReply parses the
\* whole content as standalone JSON, so that an emotion the extractor missed
\* is the one returned, and the call fails only if that parse gives no reply
\* text.
C17_ReparseWhenEmotionMissed ==
    (StreamEnded /\ parser.emotion = <<>>) =>
        \A re \in {parseAIJSON(TrimSpace(payload))} :
            (TrimSpace(payload) # <<>> /\ re.ok /\ TrimSpace(re.Reply) # <<>>) =>
                /\ streamResult.err = ""
                /\ streamResult.reply.Emotion = EmotionOr(re.Emotion, emotions)

\* C18: an answer that carries refusal text is returned as the refusal error,
\* never as a Reply, after the one attempt that brought it.
C18_RefusalSurfaced ==
    /\ (GenReturned /\ gen.err = NoError /\ choices > 0
           /\ TrimSpace(refusal) # <<>>) =>
           /\ genResult = [err |-> "openai api refused to answer",
                           reply |-> NoReply]
           /\ Len(gen.attempts) = 1
    /\ (StreamEnded /\ TrimSpace(refusal) # <<>>) =>
           /\ streamResult = [err |-> "openai api refused to answer",
                              reply |-> NoReply]
           /\ Len(str.attempts) = 1

\* C19: when reading the stream fails, StreamReply returns an error and the
\* zero Reply, the handler stores no assistant message and ends with the
\* error event, and what onToken received is never taken back.
C19_ReadFailure ==
    /\ [](streamResult.err = "read" =>
             /\ StreamReturned
             /\ streamResult.reply = NoReply
             /\ chat.stored = <<>>
             /\ chat.pc = "done" => chat.event = "error")
    /\ [][/\ Len(delivered') >= Len(delivered)
           /\ SubSeq(delivered', 1, Len(delivered)) = delivered]_vars
    /\ [][streamResult'.err = "read" => delivered' = delivered]_vars

C19_Witness ==
    /\ streamResult.err = "read"
    /\ delivered # <<>>
    /\ pos < Len(payload)
    /\ chat.pc = "done"
    /\ chat.stored = <<>>

\* a callback that fails was invoked
CallbackFailed ==
    \/ callbackFails = "emotion" /\ emotionCalls # <<>>
    \/ callbackFails = "chunk" /\ delivered # <<>>

\* C20: an error raised inside StreamReply (a frame that is no JSON, an error
\* returned by a callback, a read failure) is returned to the caller.
C20_NoErrorDropped ==
    (StreamReturned /\ str.err = NoError /\ (badFrames > 0 \/ CallbackFailed)) =>
        streamResult.err # ""

\* C21: in StreamReply every content delta is fed to the extractor once, in
\* arrival order: a step that receives runes of the payload receives the next
\* ones and leaves the parser and the callbacks as one Feed call on them does;
\* a line that is no data frame changes nothing of the call but the count of
\* such lines; once the terminator was read nothing is fed, whatever arrives.
C21_FramesInOrder ==
    /\ [][pos' # pos =>
             /\ streamPc = "reading"
             /\ pos' > pos
             /\ streamPc' = "reading" =>
                    \A f \in {Feed(parser, SubSeq(payload, pos + 1, pos'))} :
                        /\ parser' = f.p
                        /\ delivered' = delivered \o Concat(f.replies)
                        /\ emotionCalls' = emotionCalls \o f.fired]_vars
    /\ [][wire'.lines # wire.lines =>
             UNCHANGED <<parser, pos, delivered, emotionCalls, refusal,
                         streamPc, streamResult>>]_vars
    /\ [][Terminated =>
             UNCHANGED <<parser, pos, delivered, emotionCalls, refusal,
                         streamPc, streamResult>>]_vars

C21_Witness ==
    /\ Terminated
    /\ wire = [lines |-> MaxOtherLines, late |-> MaxLateFrames]
    /\ pos = Len(payload)
    /\ pos > MaxChunk
    /\ delivered # <<>>
    /\ streamResult.err = ""

\* the events follow the protocol: meta, then tokens, then one terminal event
Protocol(ev) ==
    ev # <<>> =>
        /\ ev[1] = "meta"
        /\ \A i \in 2..Len(ev) :
               /\ ev[i] \in {"token", "done", "error"}
               /\ ev[i] \in {"done", "error"} => i = Len(ev)

\* C26: the events of a streamed chat request are one meta event, then token
\* events, then at most one terminal event, done or error; nothing follows
\* the terminal event, StreamReply is not called before meta was written, and
\* done is written only when the assistant message is stored.
C26_EventProtocol ==
    /\ Protocol(chat.events)
    /\ chat.pc = "waiting" => chat.events # <<>>
    /\ chat.events = <<>> => (delivered = <<>> /\ chat.stored = <<>>)
    /\ (chat.events # <<>> /\ chat.events[Len(chat.events)] = "done") =>
           /\ chat.stored = <<streamResult.reply>>
           /\ streamResult.err = ""
    /\ (chat.events # <<>>
           /\ chat.events[Len(chat.events)] \in {"done", "error"}) =>
           chat.pc = "done"

C26_Witness ==
    /\ Len(chat.events) >= 4
    /\ chat.events[1] = "meta"
    /\ chat.events[2] = "token"
    /\ chat.events[Len(chat.events)] = "done"
    /\ chat.stored # <<>>

----------------------------------------------------------------------------
(* What reaches the callbacks (SpecStream) *)

\* the position of the first unescaped quote of t at or after i
RECURSIVE NextQuote(_, _)
NextQuote(t, i) ==
    IF i > Len(t) THEN i
    ELSE IF t[i] = BACKSLASH THEN NextQuote(t, i + 2)
    ELSE IF t[i] = QUOTE THEN i
    ELSE NextQuote(t, i + 1)

\* the members the text of a flat object was written from, found by its
\* quotes: name and value of each as written between them
RECURSIVE SourceMembers(_, _)
SourceMembers(t, i) ==
    IF NextQuote(t, i) > Len(t) THEN <<>>
    ELSE LET ko == NextQuote(t, i)
             kc == NextQuote(t, ko + 1)
             vo == NextQuote(t, kc + 1)
             vc == NextQuote(t, vo + 1)
         IN <<[key |-> SubSeq(t, ko + 1, kc - 1),
               src |-> SubSeq(t, vo + 1, vc - 1)]>>
            \o SourceMembers(t, vc + 1)

\* where the names and the values of those members stand in t: the positions
\* of the opening and of the closing quote of each
RECURSIVE SourceSpans(_, _)
SourceSpans(t, i) ==
    IF NextQuote(t, i) > Len(t) THEN <<>>
    ELSE LET ko == NextQuote(t, i)
             kc == NextQuote(t, ko + 1)
             vo == NextQuote(t, kc + 1)
             vc == NextQuote(t, vo + 1)
         IN <<[kopen |-> ko, kclose |-> kc, open |-> vo, close |-> vc]>>
            \o SourceSpans(t, vc + 1)

\* the members the payload was written from
PayloadMembers == SourceMembers(payload, 1)

\* the characters the source text of a value stands for, escape by escape
RECURSIVE Unescape(_, _)
Unescape(src, i) ==
    IF i > Len(src) THEN <<>>
    ELSE IF src[i] # BACKSLASH
    THEN <<WriteRune(src[i])>> \o Unescape(src, i + 1)
    ELSE IF i = Len(src) THEN <<>>
    ELSE IF src[i + 1] # LetterU
    THEN <<WriteRune(EscapeRune(src[i + 1]))>> \o Unescape(src, i + 2)
    ELSE LET d == decodeUnicode(SubSeq(src, i + 2, i + 5))
         IN (IF d.ok THEN <<WriteRune(d.r)>> ELSE <<>>) \o Unescape(src, i + 6)

\* the characters of the values of the members named reply, in order
RECURSIVE ReplyCharacters(_, _)
ReplyCharacters(ms, i) ==
    IF i > Len(ms) THEN <<>>
    ELSE (IF ms[i].key = KeyReply THEN Unescape(ms[i].src, 1) ELSE <<>>)
         \o ReplyCharacters(ms, i + 1)

\* C22: what onReply has received is at every moment a prefix of the decoded
\* characters of the reply values of the payload, and all of them once the
\* payload is fed: no character of a key, of the structure, of the emotion
\* value or of another field's value is among them, whatever the chunking.
C22_OnlyReplyCharacters ==
    streamPc = "reading" =>
        \A expected \in {ReplyCharacters(PayloadMembers, 1)} :
            /\ Len(delivered) <= Len(expected)
            /\ delivered = SubSeq(expected, 1, Len(delivered))
            /\ AllFed => delivered = expected

C22_Witness ==
    /\ streamPc = "reading"
    /\ AllFed
    /\ PayloadMembers \in MemberLists
    /\ Len(PayloadMembers) = 2
    /\ PayloadMembers[1].key = KeyEmotion
    /\ PayloadMembers[2].key = KeyReply
    /\ parser.emotion = Str(<<"S", "a", "d">>)
    /\ delivered = Str(<<"h", "i">>)

----------------------------------------------------------------------------
(* Properties of Feed (SpecFeed) *)

\* the callbacks the Feed call of this step invoked
NewCalls == SubSeq(fcalls', Len(fcalls) + 1, Len(fcalls'))

\* the characters the Feed call of this step added to Reply()
NewReply == SubSeq(fp'.replyBuilder, Len(fp.replyBuilder) + 1,
                   Len(fp'.replyBuilder))

\* the onReply invocations among the callbacks cs
ReplyCalls(cs) == {i \in 1..Len(cs) : cs[i].cb = "onReply"}

\* C27: a Feed call invokes onReply at most once, as its last callback, with
\* the reply characters that call decoded, and not at all when it decoded
\* none; the delta buffer is empty when the call returns, and onReply was
\* never invoked more often than Feed was called.
C27_OneReplyPerFeed ==
    /\ [][feeds' # feeds =>
             /\ feeds' = feeds + 1
             /\ Len(fcalls') >= Len(fcalls)
             /\ SubSeq(fcalls', 1, Len(fcalls)) = fcalls
             /\ SubSeq(fp'.replyBuilder, 1, Len(fp.replyBuilder))
                    = fp.replyBuilder
             /\ Cardinality(ReplyCalls(NewCalls)) <= 1
             /\ (NewReply = <<>>) = (ReplyCalls(NewCalls) = {})
             /\ NewReply # <<>> =>
                    NewCalls[Len(NewCalls)] = [cb |-> "onReply",
                                               arg |-> NewReply]
             /\ fp'.replyChunk = <<>>]_vars
    /\ [](Cardinality(ReplyCalls(fcalls)) <= feeds)

C27_Witness ==
    /\ fpos = Len(ftext)
    /\ Cardinality(ReplyCalls(fcalls)) = 2
    /\ feeds > 4
    /\ fcalls[1].cb = "onReply"
    /\ fcalls[Len(fcalls)].cb = "onEmotion"

FeedMembers == SourceMembers(ftext, 1)
FeedSpans == SourceSpans(ftext, 1)

\* the first member of ms named k, 0 if there is none
FirstNamed(ms, k) ==
    IF \E i \in 1..Len(ms) : ms[i].key = k
    THEN CHOOSE i \in 1..Len(ms) :
             ms[i].key = k /\ \A j \in 1..(i - 1) : ms[j].key # k
    ELSE 0

\* C24: onEmotion has been invoked, with the decoded emotion, when the Feed
\* call that consumed the closing quote of the emotion value returns; when
\* that value is closed before the reply value begins, every onReply
\* invocation comes after the onEmotion invocation, whatever the chunking.
C24_EmotionSurfacedEarly ==
    \A e \in {FirstNamed(FeedMembers, KeyEmotion)},
       r \in {FirstNamed(FeedMembers, KeyReply)} :
        e > 0 =>
            /\ fpos >= FeedSpans[e].close =>
                   \E j \in 1..Len(fcalls) :
                       fcalls[j] = [cb |-> "onEmotion",
                                    arg |-> Unescape(FeedMembers[e].src, 1)]
            /\ (r = 0 \/ FeedSpans[e].close < FeedSpans[r].open) =>
                   \A k \in ReplyCalls(fcalls) :
                       \E j \in 1..(k - 1) : fcalls[j].cb = "onEmotion"

C24_Witness ==
    /\ FeedMembers \in FeedObjects
    /\ FirstNamed(FeedMembers, KeyEmotion) = 1
    /\ FirstNamed(FeedMembers, KeyReply) = 2
    /\ feeds = 2
    /\ fpos = Len(ftext)
    /\ fcalls = <<[cb |-> "onEmotion", arg |-> Str(<<"S", "a", "d">>)],
                  [cb |-> "onReply", arg |-> Str(<<"h", "i">>)]>>

\* the member i of the text is one the extractor discards
Discarded(i) ==
    Unescape(FeedMembers[i].key, 1) \notin {KeyReply, KeyEmotion}

\* the rune at position n of the text, read, leaves the reader in a string
InsideString(n) ==
    \E i \in 1..Len(FeedSpans) :
        \/ FeedSpans[i].kopen <= n /\ n < FeedSpans[i].kclose
        \/ FeedSpans[i].open <= n /\ n < FeedSpans[i].close

\* C28: a Feed call that consumes only characters of the value of a field
\* named neither reply nor emotion invokes no callback and leaves Reply() and
\* Emotion() as they were; the parser is in a string exactly where the text
\* is, whatever such a value holds; and at the end of the text the reply and
\* the first emotion are what their own values stand for.
C28_OtherFieldsDiscarded ==
    /\ [][(/\ feeds' # feeds
            /\ \E i \in 1..Len(FeedSpans) :
                   /\ Discarded(i)
                   /\ fpos + 1 >= FeedSpans[i].open
                   /\ fpos' <= FeedSpans[i].close) =>
              /\ fcalls' = fcalls
              /\ fp'.replyBuilder = fp.replyBuilder
              /\ fp'.emotion = fp.emotion]_vars
    /\ [](fp.inString = InsideString(fpos))
    /\ [](fpos = Len(ftext) =>
             /\ fp.replyBuilder = ReplyCharacters(FeedMembers, 1)
             /\ Concat([i \in 1..Cardinality(ReplyCalls(fcalls)) |->
                           fcalls[CHOOSE k \in ReplyCalls(fcalls) :
                               Cardinality({j \in ReplyCalls(fcalls) : j <= k})
                                   = i].arg])
                    = ReplyCharacters(FeedMembers, 1)
             /\ \A e \in {FirstNamed(FeedMembers, KeyEmotion)} :
                    e > 0 => fp.emotion = Unescape(FeedMembers[e].src, 1))

C28_Witness ==
    /\ fpos = Len(ftext)
    /\ Len(FeedMembers) = 2
    /\ Discarded(1)
    /\ FeedMembers[1].src = Str(EscapedQuoteSrc)
    /\ fp.replyBuilder = Str(<<"h", "i">>)
    /\ feeds > 8

\* the parser is in a string, with no escape pending
PlainInside(p) == p.inString /\ ~p.escape /\ p.unicodeLeft = 0

\* what one Feed call over one rune appended: ch to the buffer the position
\* of p writes to (the name being read, the reply, the emotion not yet
\* captured), nothing to the others; a rune of the reply is delivered
AppendedByFeed(ch) ==
    /\ fp'.currentKey =
           fp.currentKey \o (IF fp.mode = "key" THEN ch ELSE <<>>)
    /\ fp'.replyBuilder =
           fp.replyBuilder
               \o (IF fp.mode = "value" /\ fp.currentKeyName = KeyReply
                   THEN ch ELSE <<>>)
    /\ fp'.currentValue =
           fp.currentValue
               \o (IF /\ fp.mode = "value" /\ fp.currentKeyName = KeyEmotion
                      /\ fp.emotion = <<>>
                   THEN ch ELSE <<>>)
    /\ fcalls' =
           fcalls \o (IF /\ fp.mode = "value" /\ fp.currentKeyName = KeyReply
                         /\ ch # <<>>
                      THEN <<[cb |-> "onReply", arg |-> ch]>> ELSE <<>>)
    /\ fp'.emotion = fp.emotion
    /\ fp'.mode = fp.mode
    /\ fp'.currentKeyName = fp.currentKeyName

\* the selectors the escape switch names
NamedSelectors ==
    {QUOTE, BACKSLASH, SLASH, LetterB, LetterF, LetterN, LetterR, LetterT,
     LetterU}

\* C29: in a string, the u after a backslash opens a count of four; each of
\* the next four characters is consumed whatever it is, the first three
\* appending nothing; on the fourth, four hexadecimal digits append exactly
\* the one character they number to the buffer in use; a selector the switch
\* does not name is appended as it stands; after the fourth character and
\* after such a selector the parser is in the string with no escape pending.
C29_EscapeMechanics ==
    /\ [][(fpos' = fpos + 1 /\ PlainInside([fp EXCEPT !.escape = FALSE])
              /\ fp.escape /\ ftext[fpos'] = LetterU) =>
             /\ fp'.unicodeLeft = 4 /\ fp'.unicodeBuf = <<>>
             /\ fp'.inString /\ ~fp'.escape
             /\ AppendedByFeed(<<>>)]_vars
    /\ [][(fpos' = fpos + 1 /\ fp.unicodeLeft > 1) =>
             /\ fp'.unicodeLeft = fp.unicodeLeft - 1
             /\ fp'.inString /\ ~fp'.escape
             /\ AppendedByFeed(<<>>)]_vars
    /\ [][(fpos' = fpos + 1 /\ fp.unicodeLeft = 1) =>
             /\ PlainInside(fp')
             /\ fp'.unicodeBuf = <<>>
             /\ SubSeq(ftext, fpos - 4, fpos - 3) = <<BACKSLASH, LetterU>>
             /\ IsHex(SubSeq(ftext, fpos - 2, fpos')) =>
                    AppendedByFeed(
                        <<WriteRune(HexNum(SubSeq(ftext, fpos - 2, fpos')))>>)]_vars
    /\ [][(fpos' = fpos + 1 /\ PlainInside([fp EXCEPT !.escape = FALSE])
              /\ fp.escape /\ ftext[fpos'] \notin NamedSelectors) =>
             /\ PlainInside(fp')
             /\ AppendedByFeed(<<ftext[fpos']>>)]_vars

\* the reply A written as an escape of a selector q and then as \u0041 has
\* been fed rune by rune
C29_Witness ==
    /\ fpos = Len(ftext)
    /\ feeds = Len(ftext)
    /\ Len(FeedMembers) = 1
    /\ FeedMembers[1].src = Str(OtherSelectorSrc)
    /\ fp.replyBuilder = Str(<<"q", "A">>)

----------------------------------------------------------------------------
(* Properties of the RateLimiter (SpecLimit) *)

\* the key of the request p that takes the step
ActingKey(p) == IF reqs[p].pc = "idle" THEN reqs'[p].key ELSE reqs[p].key

\* what the entry of key j holds for or against its client
Standing(cs, h, j) ==
    [tokens |-> h[cs[j]].tokens, last |-> h[cs[j]].last,
     strikes |-> h[cs[j]].strikes, blockedUntil |-> h[cs[j]].blockedUntil]

\* C25: within one instant of the clock no key has more requests let through
\* than the burst; the entry a request works on is the one the map holds for
\* its key; and a step of a request leaves the other keys alone: no entry
\* made for them, the tokens, the strikes and the block of an entry they
\* keep unchanged, and nothing counted for them.
C25_PerClientLimit ==
    /\ [](\A k \in ClientIPs : passed[k] <= burst)
    /\ [](\A p \in Requests :
             /\ reqs[p].pc = "create" => clients[reqs[p].key] = 0
             /\ reqs[p].pc = "decide" =>
                    reqs[p].cl # 0 /\ clients[reqs[p].key] = reqs[p].cl)
    /\ [][\A p \in Requests : \A j \in ClientIPs :
             (reqs'[p] # reqs[p] /\ j # ActingKey(p)) =>
                 /\ clients[j] = 0 => clients'[j] = 0
                 /\ clients'[j] # 0 =>
                        /\ clients'[j] = clients[j]
                        /\ Standing(clients', heap', j)
                               = Standing(clients, heap, j)
                 /\ passed'[j] = passed[j]
                 /\ rejected'[j] = rejected[j]]_vars

\* in one instant, a has had its burst let through and a request refused,
\* and b, served once, has the rest of its own bucket
C25_Witness ==
    /\ clock = 1
    /\ passed["a"] = burst
    /\ rejected["a"] = 1
    /\ answer = "429"
    /\ passed["b"] = 1
    /\ clients["b"] # 0
    /\ heap[clients["b"]].tokens = burst - 1
    /\ heap[clients["b"]].strikes = 0

\* the request p leaves allow in this step
Decides(p) == reqs[p].pc = "decide" /\ reqs'[p].pc = "idle"

\* C30: the rejection that is the maxStrikes-th in a row for its key sets
\* the block to end blockDuration after the time of that request; a request
\* that finds the block running is refused and changes nothing of the entry
\* but the time it was last seen; a cleanup keeps the entry of a running
\* block; from the deadline itself on the bucket alone decides, a refusal
\* being a strike again; and a request let through leaves no strike.
C30_StrikesAndBlock ==
    /\ [][\A p \in Requests :
             (Decides(p) /\ answer' = "429"
                /\ rejected'[reqs[p].key] = maxStrikes) =>
                 /\ heap'[reqs[p].cl].blockedUntil
                        = reqs[p].now + blockDuration
                 /\ heap'[reqs[p].cl].strikes = 0]_vars
    /\ [][\A p \in Requests :
             (Decides(p) /\ reqs[p].now < heap[reqs[p].cl].blockedUntil) =>
                 /\ answer' = "429"
                 /\ heap'[reqs[p].cl] =
                        [heap[reqs[p].cl] EXCEPT !.lastSeen = reqs[p].now]]_vars
    /\ [][\A j \in ClientIPs :
             (clients[j] # 0 /\ clock < heap[clients[j]].blockedUntil) =>
                 clients'[j] = clients[j]]_vars
    /\ [][\A p \in Requests :
             (Decides(p) /\ reqs[p].now >= heap[reqs[p].cl].blockedUntil) =>
                 /\ heap[reqs[p].cl].tokens >= 1 => answer' = "next"
                 /\ answer' = "429" =>
                        \/ heap'[reqs[p].cl].strikes
                               = heap[reqs[p].cl].strikes + 1
                        \/ /\ heap[reqs[p].cl].strikes + 1 = maxStrikes
                           /\ heap'[reqs[p].cl].blockedUntil
                                  = reqs[p].now + blockDuration]_vars
    /\ [][\A p \in Requests :
             (Decides(p) /\ answer' = "next") =>
                 heap'[reqs[p].cl].strikes = 0]_vars

\* a is blocked until 5 and its request at 4, the bucket long refilled, was
\* refused
C30_Witness ==
    /\ clock = 4
    /\ answer = "429"
    /\ rejected["a"] > maxStrikes
    /\ clients["a"] # 0
    /\ heap[clients["a"]].blockedUntil = 1 + blockDuration
    /\ heap[clients["a"]].lastSeen = 4
    /\ heap[clients["a"]].strikes = 0
    /\ reqs = [p \in Requests |-> NoRequest]

----------------------------------------------------------------------------
(* Two calls on one Client against each call alone (SpecPair) *)

\* the escalation of a call that is alone on the Client c, its transport
\* calls ending as outs says, from the k-th on
RECURSIVE SoloEscalation(_, _, _, _, _)
SoloEscalation(kind, c, m, outs, k) ==
    IF m.pc = "done" THEN m
    ELSE LET n == EscalationStep(kind, c.apiKey, m,
                                 IF k <= Len(outs) THEN outs[k] ELSE NoError)
         IN SoloEscalation(kind, c, n, outs,
                           IF n.calls > m.calls THEN k + 1 ELSE k)

\* the parser and the callbacks of a call alone, the frames from the k-th on
RECURSIVE SoloFrames(_, _, _)
SoloFrames(st, frames, k) ==
    IF k > Len(frames) THEN st
    ELSE LET f == Feed(st.p, frames[k])
         IN SoloFrames([p |-> f.p, replies |-> st.replies \o f.replies,
                        fired |-> st.fired \o f.fired], frames, k + 1)

\* what a call alone on the Client c sends, hands to its callbacks and
\* returns
SoloCall(kind, frames, c, outs) ==
    LET m == SoloEscalation(kind, c,
                 NewCall(c.temperature,
                         IF kind = "gen" THEN "L127" ELSE "L337"), outs, 1)
        st == SoloFrames([p |-> newJSONStreamParser, replies |-> <<>>,
                          fired |-> <<>>], frames, 1)
        f == streamFinish(st.p, Concat(frames), <<>>, c.emotions)
    IN IF m.err # NoError
       THEN [attempts |-> m.attempts, replies |-> <<>>, fired |-> <<>>,
             result |-> [err |-> ErrorText(m.err), reply |-> NoReply]]
       ELSE IF kind = "gen"
       THEN [attempts |-> m.attempts, replies |-> <<>>, fired |-> <<>>,
             result |-> ReplyOf(1, Concat(frames), <<>>, c.emotions)]
       ELSE [attempts |-> m.attempts, replies |-> st.replies,
             fired |-> st.fired \o f.fired, result |-> f.result]

\* what the call i has sent, handed to its callbacks and returned
Observed(i) ==
    [attempts |-> calls[i].m.attempts, replies |-> calls[i].replies,
     fired |-> calls[i].fired, result |-> calls[i].result]

\* C23: whatever the interleaving of two calls on one Client, a call that
\* has returned sent the requests, made the callback invocations and
\* returned the result of the same call alone on the Client as it was
\* built, given the same answers of the provider; every call starts from
\* the temperature and the format of the Client; and no step of a call
\* writes the Client.
C23_CallsDoNotInterfere ==
    /\ [](\A i \in {1, 2} :
             calls[i].pc = "returned" =>
                 Observed(i) = SoloCall(calls[i].kind, calls[i].frames,
                                        PairClient, calls[i].outs))
    /\ [](\A i \in {1, 2} :
             Len(calls[i].m.attempts) > 0 =>
                 calls[i].m.attempts[1] = NewRequest(PairClient.temperature))
    /\ [][shared' = shared]_vars

\* a stream that was opened by a second attempt at temperature zero is
\* being read while the other call, begun at the temperature of the Client,
\* is on its way to a format downgraded
C23_Witness ==
    /\ calls[1].kind = "stream"
    /\ calls[1].pc = "reading"
    /\ calls[1].m.forced = 1
    /\ calls[1].fed = 1
    /\ calls[2].pc = "escalating"
    /\ calls[2].m.downgraded = 1
    /\ calls[2].m.forced = 0
    /\ calls[2].m.req.Temperature = PairClient.temperature
    /\ Len(calls[2].m.attempts) = 2

\* C31: an entry has fewer strikes than maxStrikes and never less than none;
\* the rejection that would bring them to maxStrikes leaves none and sets
\* the block.
C31_StrikesBelowMax ==
    /\ [](\A k \in ClientIPs :
             clients[k] # 0 =>
                 /\ heap[clients[k]].strikes >= 0
                 /\ heap[clients[k]].strikes < maxStrikes)
    /\ [][\A p \in Requests :
             (Decides(p) /\ answer' = "429"
                /\ reqs[p].now >= heap[reqs[p].cl].blockedUntil
                /\ heap[reqs[p].cl].strikes + 1 = maxStrikes) =>
                 /\ heap'[reqs[p].cl].strikes = 0
                 /\ heap'[reqs[p].cl].blockedUntil
                        = reqs[p].now + blockDuration]_vars

\* the rejection that set the block of a has returned, no strike left
C31_Witness ==
    /\ reqs = [p \in Requests |-> NoRequest]
    /\ answer = "429"
    /\ rejected["a"] = maxStrikes
    /\ clients["a"] # 0
    /\ heap[clients["a"]].strikes = 0
    /\ heap[clients["a"]].blockedUntil = clock + blockDuration

\* C32: an entry leaves the map only in a cleanup, more than two windows
\* after it was last seen and after the end of its block; a cleanup comes a
\* minute at least after the one before.
C32_CleanupKeepsBlocks ==
    /\ [][\A j \in ClientIPs :
             (clients[j] # 0 /\ clients'[j] # clients[j]) =>
                 /\ clients'[j] = 0
                 /\ lastCleanup' = clock
                 /\ clock - heap[clients[j]].lastSeen > 2 * window
                 /\ clock > heap[clients[j]].blockedUntil]_vars
    /\ [][lastCleanup' # lastCleanup =>
             /\ lastCleanup' = clock
             /\ clock - lastCleanup >= Minute]_vars

\* a cleanup has just been through the map: the entry of a, last seen more
\* than two windows ago, is kept for the block that still runs
C32_Witness ==
    /\ lastCleanup = clock
    /\ \E p \in Requests : reqs[p].pc = "lookup" /\ reqs[p].key = "b"
    /\ clients["a"] # 0
    /\ clock - heap[clients["a"]].lastSeen > 2 * window
    /\ clock < heap[clients["a"]].blockedUntil

\* the seconds the request p is told to wait, as allow finds the entry
SecondsLeft(p) ==
    IF reqs[p].now < heap[reqs[p].cl].blockedUntil
    THEN (heap[reqs[p].cl].blockedUntil - reqs[p].now) * SecondsPerTick
    ELSE IF heap'[reqs[p].cl].blockedUntil = reqs[p].now + blockDuration
    THEN blockDuration * SecondsPerTick
    ELSE window * SecondsPerTick

\* C33: the Retry-After of a 429 is a whole number of seconds, one at least:
\* those left until the end of the block, or those of one window where no
\* block runs.
C33_RetryAfterSeconds ==
    [][\A p \in Requests :
         (Decides(p) /\ answer' = "429") =>
             /\ retry' >= Second
             /\ retry' % Second = 0
             /\ retry' \div Second = SecondsLeft(p)]_vars

----------------------------------------------------------------------------
(* What StreamReply returns against what its callbacks were given *)

\* StreamReply has returned a Reply and no error
StreamSucceeded ==
    /\ streamPc = "returned"
    /\ streamResult.err = ""

\* the allowed emotions, trimmed and in lower case
AllowedFolded(allowed) ==
    {ToLower(TrimSpace(allowed[i])) : i \in 1..Len(allowed)}

\* C34 as stated: the Emotion of the Reply is the value onEmotion was given,
\* trimmed and in lower case.
C34_EmotionAsDelivered ==
    (StreamSucceeded /\ emotionCalls # <<>>) =>
        \E i \in 1..Len(emotionCalls) :
            streamResult.reply.Emotion = ToLower(TrimSpace(emotionCalls[i]))

\* C34: the Emotion of the Reply is the value onEmotion was given last,
\* trimmed and in lower case, where that is a non-empty allowed emotion, and
\* the fallback emotion where it is not.
C34_EmotionDeliveredOrFallback ==
    (StreamSucceeded /\ emotionCalls # <<>>) =>
        LET e == ToLower(TrimSpace(emotionCalls[Len(emotionCalls)])) IN
        streamResult.reply.Emotion =
            IF e # <<>> /\ e \in AllowedFolded(emotions) THEN e
            ELSE fallbackEmotion(emotions)

\* onEmotion was given Sad, no emotion is allowed: the Reply has the default
C34_Witness ==
    /\ StreamSucceeded
    /\ emotions = <<>>
    /\ emotionCalls = <<Str(<<"S", "a", "d">>)>>
    /\ streamResult.reply.Emotion = Neutral

\* C35: the Text of the Reply is what onReply was given, all of it in the
\* order of the calls, trimmed.
C35_TextAsStreamed ==
    (StreamSucceeded /\ delivered # <<>>) =>
        streamResult.reply.Text = TrimSpace(delivered)

\* C36: a Reply returned without an error has a Text that is not blank.
C36_TextNeverBlank ==
    /\ (GenReturned /\ gen.err = NoError /\ genResult.err = "") =>
           TrimSpace(genResult.reply.Text) # <<>>
    /\ (StreamReturned /\ str.err = NoError /\ streamResult.err = "") =>
           TrimSpace(streamResult.reply.Text) # <<>>

\* a Feed call invokes a callback that returns an error
FailsInFeed ==
    /\ streamPc = "reading"
    /\ pos' # pos
    /\ \/ callbackFails = "chunk" /\ delivered' # delivered
       \/ callbackFails = "emotion" /\ emotionCalls' # emotionCalls

\* C37: when a callback returns an error inside Feed, StreamReply returns
\* at that call with the error and no Reply; the failing call is the last
\* call of a callback: after onEmotion failed no onReply and no second
\* onEmotion is made, after onReply failed nothing more is delivered.
C37_CallbackErrorEndsCall ==
    /\ [][FailsInFeed =>
             /\ streamPc' = "returned"
             /\ streamResult' = [err |-> "callback", reply |-> NoReply]
             /\ callbackFails = "emotion" =>
                    /\ delivered' = delivered
                    /\ Len(emotionCalls') = Len(emotionCalls) + 1
             /\ callbackFails = "chunk" =>
                    Len(delivered') <= Len(delivered) + (pos' - pos)]_vars
    /\ [][streamPc = "returned" =>
             UNCHANGED <<delivered, emotionCalls, streamResult>>]_vars

\* onEmotion failed in the Feed call that also read characters of the reply
C37_Witness ==
    /\ StreamReturned
    /\ str.err = NoError
    /\ callbackFails = "emotion"
    /\ streamResult = [err |-> "callback", reply |-> NoReply]
    /\ Len(emotionCalls) = 1
    /\ delivered = <<>>
    /\ pos < Len(payload)
    /\ chat.pc = "done"

----------------------------------------------------------------------------
(* Properties of HandleSendMessage (SpecPost) *)

\* the rows of the thread t, the oldest first
ThreadRows(t) == SelectSeq(stored, LAMBDA m : m.thread = t)

\* the n latest of the rows ms, the oldest of them first
Latest(ms, n) ==
    IF Len(ms) <= n THEN ms ELSE SubSeq(ms, Len(ms) - n + 1, Len(ms))

\* prepareChat of the request p reads the history
ReadsHistory(p) ==
    /\ posts[p].pc = "history"
    /\ posts'[p].pc = "ai"

\* C38: the history of a request is made of the latest AI_MAX_HISTORY
\* messages of its thread, the oldest first, and its last message is the user
\* message that request stored.
C38_HistoryEndsWithOwnMessage ==
    [][\A p \in Posters :
         ReadsHistory(p) =>
             /\ posts'[p].history =
                    Latest(ThreadRows(posts[p].threadUUID), maxHistoryLimit)
             /\ posts'[p].history # <<>>
             /\ posts'[p].history[Len(posts'[p].history)].uuid
                    = NewUUID(p, 3)]_vars

\* the request p has left a row in a table
LeftRow(p) ==
    \/ NewUUID(p, 1) \in visitors
    \/ \E t \in threads : t.uuid = NewUUID(p, 2)
    \/ \E i \in 1..Len(stored) : stored[i].uuid \in {NewUUID(p, 3),
                                                     NewUUID(p, 4)}

\* C39: a request answered 400 or 404 has left no row in the tables of the
\* visitors, the threads and the messages, and has not called the AI client.
C39_RejectedLeavesNothing ==
    \A p \in Posters :
        (posts[p].pc = "done" /\ posts[p].status \in {"400", "404"}) =>
            /\ ~LeftRow(p)
            /\ posts[p].ai = 0

\* a visitor_id no row has was answered 404 while the other request went
\* through and left its rows
C39_Witness ==
    \E p, q \in Posters :
        /\ posts[p].pc = "done"
        /\ posts[p].status = "404"
        /\ posts[q].pc = "done"
        /\ posts[q].status = "200"
        /\ posts[q].ai = 1
        /\ LeftRow(q)
        /\ visitors = {KnownVisitor, NewUUID(q, 1)}

----------------------------------------------------------------------------
(* Properties of Server.Run and /ready (SpecServe) *)

\* the request r has got its answer, or none: it was refused
Settled(r) == gets[r].state \in {"answered", "refused"}

\* C40 as stated: a request to /ready made before the listener is bound is
\* answered 503 not_ready, one made after it 200 ready; the flag turns true
\* once and stays.
C40_ReadyFollowsListener ==
    /\ [](\A r \in Getters :
             /\ (Settled(r) /\ ~gets[r].bound) =>
                    gets[r].answer = "503 not_ready"
             /\ (gets[r].state = "answered" /\ gets[r].bound) =>
                    gets[r].answer = "200 ready")
    /\ [][ready => ready']_vars

\* C40: a request to /ready is answered only where it was made with the
\* listener bound, and then 200 ready; one made before is refused and gets no
\* answer, not_ready included. The flag is true from the step after the
\* listener is bound: it turns true once and stays.
C40_ReadyOnceListening ==
    /\ [](\A r \in Getters :
             /\ gets[r].state = "answered" =>
                    /\ gets[r].bound
                    /\ gets[r].answer = "200 ready"
             /\ (gets[r].state # "none" /\ ~gets[r].bound) =>
                    /\ gets[r].state = "refused"
                    /\ gets[r].answer = "")
    /\ [](ready <=> run \in {"stored", "serving", "closed"})
    /\ [][ready => ready']_vars

\* one request was made before the listener was bound, one after it
C40_Witness ==
    \E r, q \in Getters :
        /\ gets[r].state = "refused"
        /\ ~gets[r].bound
        /\ gets[q] = [state |-> "answered", bound |-> TRUE,
                      answer |-> "200 ready"]
        /\ ready

====
